---- MODULE Spec2Model ----
(***************************************************************************)
(* Secure link access control of firstgen-quick-w2-proposal: the passcode  *)
(* validator (validate_case_access), link rotation (regenerate_link) and   *)
(* the Pipedrive webhook generator (generate_case_from_pipedrive), run by  *)
(* concurrent request handlers against the cases / case_links tables.      *)
(* Every store round trip (an awaited supabase call) is one atomic step;   *)
(* the code between two round trips runs with the step that follows it.    *)
(***************************************************************************)
EXTENDS Integers, Sequences, FiniteSets, TLC

\* ------------------------------------------------------------------------
\* Bounds of the model.  Time is counted in ticks; the three durations of
\* _shared/constants.ts are scaled to ticks.
\* ------------------------------------------------------------------------
MaxTime == 3
LockTicks == 2
ExpiryTicks == 2
WindowTicks == 1
MaxLinks == 2
MaxViews == 2
GuessBudget == 1
SingleLink == 1
MaxCases == 2
RaceBudget == 2
MaxW2Count == 20
LargeExponent == 43
MaxOffset == 3

\* ------------------------------------------------------------------------
\* Program constants.
\* ------------------------------------------------------------------------
MAX_ATTEMPTS == 10
RATE_TOTAL == 3357
RATE_ER == 1187
RATE_EE == 2170
\* src/lib/constants, used by the platform's calculator.
LIB_RATE_TOTAL == 3356
LIB_RATE_ER == 1186
LIB_RATE_EE == 2170

\* The digits of the significand of a number (an IEEE-754 double).
MantissaBits == 53

Null == 0 - 1
AttemptCap == MAX_ATTEMPTS + 1
Procs == {1, 2}
SeqProcs == {1}
Deals == {1}
CaseIds == {1}
OtherCase == 2
GeneratedPasscodes == {"482913"}
Passcodes == GeneratedPasscodes \cup {"000000"}
LINK_PEPPER == "pepper"

VARIABLES now, storeUp, cases, links, tokenCtr, guesses, procs

vars == <<now, storeUp, cases, links, tokenCtr, guesses, procs>>

\* ------------------------------------------------------------------------
\* _shared/crypto.ts
\* ------------------------------------------------------------------------
\* SHA-256 over pepper + value: a digest that is equal exactly for equal
\* (pepper, value) and from which neither can be read back by the program.
hashWithPepper(value, pepper) == <<"sha256", pepper, value>>

\* generateToken: 32 random bytes, a value no row of case_links holds yet.
\* tokenCtr counts the tokens that were persisted; a token whose insert failed
\* is lost with the request that drew it.
generateToken == tokenCtr + 1

\* ------------------------------------------------------------------------
\* Rows and responses
\* ------------------------------------------------------------------------
Idle == [kind |-> "idle", pc |-> "idle"]

NoRow == <<>>

NoResp == [ok |-> FALSE, state |-> "none", status |-> 0]

\* A text column that holds NULL or the empty string.
NoText == <<>>

\* case_links INSERT with the column defaults of the migrations; the edge
\* functions do not name shareable_url, which stays NULL.
NewLinkRow(caseId, tokenHash, passcodeHash, expiresAt) ==
    [case_id |-> caseId, token_hash |-> tokenHash, passcode_hash |-> passcodeHash,
     expires_at |-> expiresAt, revoked_at |-> Null, attempt_count |-> 0,
     locked_until |-> Null, view_count |-> 0, last_viewed_at |-> Null,
     shareable_url |-> NoText]

LinkIds == 1..Len(links)

\* Variant: the lookup by token_hash alone.
MatchingLinks_TokenOnly(tokenHash, caseId) ==
    {i \in LinkIds : links[i].token_hash = tokenHash}

\* .eq("token_hash", tokenHash).eq("case_id", case_id)
MatchingLinks(tokenHash, caseId) ==
    {i \in LinkIds : links[i].token_hash = tokenHash /\ links[i].case_id = caseId}

ActiveLinks(caseId) ==
    {i \in LinkIds : links[i].case_id = caseId /\ links[i].revoked_at = Null}

\* The row left behind by DELETE: ids are never reused.
DeletedCase == [deal |-> Null, user_id |-> Null, deleted |-> TRUE]

CaseExists(id) == id \in 1..Len(cases) /\ cases[id] # DeletedCase

InFlight == {p \in Procs : procs[p].pc \notin {"idle", "done"}}

Issuers ==
    {p \in Procs : procs[p].kind \in {"regen", "webhook", "generate"} /\ procs[p].pc # "done"}

\* A response is delivered before anything else happens.
NoDone == \A p \in Procs : procs[p].pc # "done"

\* ------------------------------------------------------------------------
\* JavaScript values and numbers
\* ------------------------------------------------------------------------
\* A whole number is a sequence of binary digits, least significant first,
\* the last one 1; zero is the empty sequence.
RECURSIVE Bits(_)
Bits(n) == IF n = 0 THEN <<>> ELSE <<n % 2>> \o Bits(n \div 2)

RECURSIVE Value(_)
Value(b) == IF b = <<>> THEN 0 ELSE b[1] + 2 * Value(Tail(b))

\* 2^e + j
Pow2Plus(e, j) ==
    [i \in 1..(e + 1) |->
        IF i = e + 1 THEN 1 ELSE IF i <= Len(Bits(j)) THEN Bits(j)[i] ELSE 0]

\* The exact product b * c + carry and the exact sum a + b + carry.
RECURSIVE TimesBits(_, _, _)
TimesBits(b, c, carry) ==
    IF b = <<>> THEN Bits(carry)
    ELSE <<(b[1] * c + carry) % 2>> \o TimesBits(Tail(b), c, (b[1] * c + carry) \div 2)

RECURSIVE PlusBits(_, _, _)
PlusBits(a, b, carry) ==
    IF a = <<>> /\ b = <<>> THEN Bits(carry)
    ELSE LET x == IF a = <<>> THEN 0 ELSE a[1]
             y == IF b = <<>> THEN 0 ELSE b[1]
             ra == IF a = <<>> THEN <<>> ELSE Tail(a)
             rb == IF b = <<>> THEN <<>> ELSE Tail(b)
         IN  <<(x + y + carry) % 2>> \o PlusBits(ra, rb, (x + y + carry) \div 2)

\* A number is an IEEE-754 double: its significand has MantissaBits digits.
\* The nearest double of a whole number, ties to the even significand.
RoundToDouble(b) ==
    IF Len(b) <= MantissaBits THEN b
    ELSE LET k == Len(b) - MantissaBits
             kept == SubSeq(b, k + 1, Len(b))
             sticky == \E i \in 1..(k - 1) : b[i] = 1
             up == b[k] = 1 /\ (sticky \/ kept[1] = 1)
         IN  [i \in 1..k |-> 0] \o (IF up THEN PlusBits(kept, <<1>>, 0) ELSE kept)

\* a * c of two numbers that are whole and not negative.
NumberTimes(a, c) == RoundToDouble(TimesBits(a, c, 0))

\* A value of the language: its type and, by type, its content.  A number
\* is NaN, infinite or finite; a finite one has a sign, a whole part and
\* possibly a fractional part.
JsValue(type, str, cls, neg, int, frac) ==
    [type |-> type, str |-> str, cls |-> cls, neg |-> neg, int |-> int, frac |-> frac]

Undefined == JsValue("undefined", "", "", FALSE, <<>>, FALSE)

JsNull == JsValue("null", "", "", FALSE, <<>>, FALSE)

JsTrue == JsValue("boolean", "", "", FALSE, <<>>, FALSE)

Str(s) == JsValue("string", s, "", FALSE, <<>>, FALSE)

Num(neg, int, frac) == JsValue("number", "", "finite", neg, int, frac)

NaN == JsValue("number", "", "nan", FALSE, <<>>, FALSE)

Infinity == JsValue("number", "", "infinite", FALSE, <<>>, FALSE)

TypeOf(v) == IF v.type = "null" THEN "object" ELSE v.type

IsZero(v) == v.cls = "finite" /\ v.int = <<>> /\ ~v.frac

\* !v
Falsy(v) ==
    \/ v.type \in {"undefined", "null"}
    \/ v.type = "string" /\ v.str = ""
    \/ v.type = "number" /\ (v.cls = "nan" \/ IsZero(v))

NumberIsFinite(v) == v.type = "number" /\ v.cls = "finite"

NumberIsInteger(v) == NumberIsFinite(v) /\ ~v.frac

\* v <= 0 of a number: false of NaN.
AtMostZero(v) == v.cls # "nan" /\ (v.neg \/ IsZero(v))

\* String.prototype.trim over the strings of the model.
Trim(str) == IF str = " " THEN "" ELSE IF str = " Acme " THEN "Acme" ELSE str

\* The whole number n.
Whole(n) == Num(FALSE, Bits(n), FALSE)

\* Number(v) of a number or of a string of the model; a fractional part of
\* a number of the model is one half.
ToNumber(v) ==
    IF v.type = "number" THEN v
    ELSE IF v.type = "string" /\ v.str = "25" THEN Whole(25)
    ELSE IF v.type = "string" /\ v.str = "10.5" THEN Num(FALSE, Bits(10), TRUE)
    ELSE IF v.type = "string" /\ Trim(v.str) = "" THEN Whole(0)
    ELSE NaN

\* v * c of a number and a whole positive constant: NaN and the infinities
\* stay, a finite number is doubled, multiplied, rounded and halved.
Times(v, c) ==
    IF v.cls # "finite" THEN v
    ELSE LET twice == RoundToDouble(TimesBits((IF v.frac THEN <<1>> ELSE <<0>>) \o v.int, c, 0))
         IN  IF twice = <<>> THEN Num(v.neg, <<>>, FALSE)
             ELSE Num(v.neg, Tail(twice), twice[1] = 1)

\* ------------------------------------------------------------------------
\* Requests the environment sends
\* ------------------------------------------------------------------------
YES == "yes"

GoodPayload(d, w) ==
    [secretOk |-> TRUE, hasBoth |-> TRUE, cur |-> YES, prev |-> "",
     title |-> "Acme", industry |-> "Retail", w2 |-> Whole(w), deal |-> d]

Payloads ==
    {GoodPayload(d, w) : d \in Deals, w \in {1, 2}}
    \cup {[GoodPayload(1, 1) EXCEPT !.secretOk = FALSE],
          [GoodPayload(1, 1) EXCEPT !.hasBoth = FALSE],
          [GoodPayload(1, 1) EXCEPT !.prev = YES],
          [GoodPayload(1, 1) EXCEPT !.cur = ""],
          [GoodPayload(1, 1) EXCEPT !.cur = "", !.prev = YES],
          [GoodPayload(1, 1) EXCEPT !.title = ""],
          [GoodPayload(1, 1) EXCEPT !.industry = ""],
          [GoodPayload(1, 1) EXCEPT !.w2 = Whole(0)]}

\* What a specification lets the environment send: cap bounds the
\* attempt_count at which wrong passcodes are still sent, maxLinks the rows of
\* case_links, bogus is the never-issued tokens, passcodes and payloads the
\* request bodies.
AllInputs ==
    [cap |-> GuessBudget, maxLinks |-> MaxLinks, bogus |-> {0},
     caseIds |-> CaseIds \cup {OtherCase},
     passcodes |-> Passcodes \cup {""}, payloads |-> Payloads]

\* The same event delivered again and again, visitors that hold a link.
RaceInputs ==
    [cap |-> GuessBudget, maxLinks |-> MaxLinks, bogus |-> {},
     caseIds |-> CaseIds,
     passcodes |-> Passcodes, payloads |-> {GoodPayload(1, 1)}]

\* One link, the whole attempt budget.
LockInputs ==
    [cap |-> AttemptCap, maxLinks |-> SingleLink, bogus |-> {0},
     caseIds |-> CaseIds,
     passcodes |-> Passcodes \cup {""}, payloads |-> Payloads]

\* Visitors that hold the one link and send passcodes at the same time.
RacingInputs ==
    [cap |-> RaceBudget, maxLinks |-> SingleLink, bogus |-> {},
     caseIds |-> CaseIds,
     passcodes |-> Passcodes, payloads |-> {GoodPayload(1, 1)}]

\* Two links of one case, the whole attempt budget.
TerminalInputs ==
    [cap |-> AttemptCap, maxLinks |-> MaxLinks, bogus |-> {0},
     caseIds |-> CaseIds,
     passcodes |-> Passcodes, payloads |-> {GoodPayload(1, 1)}]

\* ------------------------------------------------------------------------
\* Environment: the clock and the availability of the datastore
\* ------------------------------------------------------------------------
Tick ==
    /\ NoDone
    /\ InFlight = {}
    /\ now < MaxTime
    /\ now' = now + 1
    /\ UNCHANGED <<storeUp, cases, links, tokenCtr, guesses, procs>>

StoreFail ==
    /\ NoDone
    /\ storeUp
    /\ storeUp' = FALSE
    /\ UNCHANGED <<now, cases, links, tokenCtr, guesses, procs>>

StoreRecover ==
    /\ NoDone
    /\ ~storeUp
    /\ storeUp' = TRUE
    /\ UNCHANGED <<now, cases, links, tokenCtr, guesses, procs>>

\* A handler's response has been delivered; the worker is free again.
Return(p) ==
    /\ procs[p].pc = "done"
    /\ procs' = [procs EXCEPT ![p] = Idle]
    /\ UNCHANGED <<now, storeUp, cases, links, tokenCtr, guesses>>

\* ------------------------------------------------------------------------
\* validate_case_access/index.ts: the passcode validator
\* ------------------------------------------------------------------------
AccessResponse(ok, state, status, remaining, lockedUntil, data) ==
    [ok |-> ok, state |-> state, status |-> status,
     remaining_attempts |-> remaining, locked_until |-> lockedUntil, data |-> data]

VerifyProc(pc, caseId, token, passcode, id, snap, t, wrote, resp) ==
    [kind |-> "verify", pc |-> pc, case_id |-> caseId, token |-> token,
     passcode |-> passcode, id |-> id, snap |-> snap, now |-> t,
     wrote |-> wrote, resp |-> resp]

\* Step 3 of the handler: the three lifecycle tests, in the order of the code.
\* Variant: the revoked test is left out.
IsRevoked_Skipped(link) == FALSE

IsRevoked(link) == link.revoked_at # Null

\* Variant: the expiry comparison the wrong way round.
IsExpired_Reversed(link, t) == link.expires_at > t

IsExpired(link, t) == link.expires_at < t

\* Variant: no test for a running lock.
IsLocked_NoPrecheck(link, t) == FALSE

\* Variant: the lock comparison the wrong way round.
IsLocked_Reversed(link, t) == link.locked_until # Null /\ link.locked_until < t

IsLocked(link, t) == link.locked_until # Null /\ link.locked_until > t

\* Step 4: passcodeHash === link.passcode_hash
IsCorrect(link, passcode) ==
    hashWithPepper(passcode, LINK_PEPPER) = link.passcode_hash

\* Step 5: (link.attempt_count || 0) + 1, and the lock threshold.
NewAttemptCount(link) == link.attempt_count + 1

\* Variant: the lock only above the maximum.
ReachesLock_Above(newAttemptCount) == newAttemptCount > MAX_ATTEMPTS

ReachesLock(newAttemptCount) == newAttemptCount >= MAX_ATTEMPTS

\* Variant: the update writes back the whole row that was read.
WrongPasscodeUpdate_WholeRow(row, link, t) ==
    [link EXCEPT !.attempt_count = link.attempt_count + 1,
                 !.locked_until = IF link.attempt_count + 1 >= MAX_ATTEMPTS
                                  THEN t + LockTicks ELSE @]

\* Variant: attempts are counted afresh once a lock has run out.
WrongPasscodeUpdate_FreshCount(row, link, t) ==
    [row EXCEPT !.attempt_count = IF link.locked_until # Null /\ link.locked_until <= t
                                  THEN 1 ELSE link.attempt_count + 1,
                !.locked_until = IF ReachesLock(NewAttemptCount(link))
                                 THEN t + LockTicks ELSE @]

\* The row after .update(updates).eq("id", link.id): the named columns take
\* the values computed from the row that was read, the others stay.
WrongPasscodeUpdate(row, link, t) ==
    [row EXCEPT !.attempt_count = NewAttemptCount(link),
                !.locked_until = IF ReachesLock(NewAttemptCount(link))
                                 THEN t + LockTicks ELSE @]

WrongPasscodeResponse(link) ==
    IF ReachesLock(NewAttemptCount(link))
    THEN AccessResponse(FALSE, "locked", 200, Null, Null, Null)
    ELSE AccessResponse(FALSE, "wrong_passcode", 200,
                        MAX_ATTEMPTS - NewAttemptCount(link), Null, Null)

\* Variant: the success update writes back the whole row that was read.
SuccessUpdate_WholeRow(row, link, t) ==
    [link EXCEPT !.attempt_count = 0,
                 !.view_count = link.view_count + 1,
                 !.last_viewed_at = t]

\* Variant: a success that keeps the failed attempts.
SuccessUpdate_NoReset(row, link, t) ==
    [row EXCEPT !.view_count = link.view_count + 1,
                !.last_viewed_at = t]

\* Step 6: reset attempts, count the view.
SuccessUpdate(row, link, t) ==
    [row EXCEPT !.attempt_count = 0,
                !.view_count = link.view_count + 1,
                !.last_viewed_at = t]

\* Step 7: the columns of the case returned to the visitor.
CaseData(caseId) ==
    [id |-> caseId, calc_total |-> cases[caseId].calc_total,
     calc_er |-> cases[caseId].calc_er, calc_ee |-> cases[caseId].calc_ee]

\* Variant: the lock is tested before the expiry.
VerifyLookup_LockedFirst(p, in) ==
    /\ NoDone
    /\ procs[p].pc = "idle"
    /\ \E caseId \in in.caseIds, token \in in.bogus \cup (1..tokenCtr), passcode \in in.passcodes :
        LET m == MatchingLinks(hashWithPepper(token, LINK_PEPPER), caseId)
            id == CHOOSE i \in m : TRUE
            link == links[id]
            End(i, snap, resp) ==
                /\ procs' = [procs EXCEPT ![p] =
                       VerifyProc("done", caseId, token, passcode, i, snap, now, FALSE, resp)]
                /\ UNCHANGED guesses
        IN  IF passcode = ""
              THEN End(0, NoRow, AccessResponse(FALSE, "invalid", 400, Null, Null, Null))
            ELSE IF ~storeUp \/ Cardinality(m) > 1
              THEN End(0, NoRow, AccessResponse(FALSE, "invalid", 500, Null, Null, Null))
            ELSE IF m = {}
              THEN End(0, NoRow, AccessResponse(FALSE, "invalid", 200, Null, Null, Null))
            ELSE IF IsRevoked(link)
              THEN End(id, link, AccessResponse(FALSE, "revoked", 200, Null, Null, Null))
            ELSE IF IsLocked(link, now)
              THEN End(id, link, AccessResponse(FALSE, "locked", 200, Null,
                                                link.locked_until, Null))
            ELSE IF IsExpired(link, now)
              THEN End(id, link, AccessResponse(FALSE, "expired", 200, Null, Null, Null))
            ELSE /\ IF IsCorrect(link, passcode)
                      THEN link.view_count < MaxViews
                      ELSE link.attempt_count < in.cap /\ guesses[id] <= in.cap
                 /\ procs' = [procs EXCEPT ![p] =
                        VerifyProc("write", caseId, token, passcode, id, link, now,
                                   FALSE, NoResp)]
                 /\ guesses' = IF IsCorrect(link, passcode) THEN guesses
                               ELSE [guesses EXCEPT ![id] = @ + 1]
    /\ UNCHANGED <<now, storeUp, cases, links, tokenCtr>>

\* Steps 1-4: parse, look the link up by (token_hash, case_id), run the
\* lifecycle tests and compare the passcode.  token 0 is a well-formed token
\* that was never issued; passcode "" is a request with a missing field.
VerifyLookup(p, in) ==
    /\ NoDone
    /\ procs[p].pc = "idle"
    /\ \E caseId \in in.caseIds, token \in in.bogus \cup (1..tokenCtr), passcode \in in.passcodes :
        LET m == MatchingLinks(hashWithPepper(token, LINK_PEPPER), caseId)
            id == CHOOSE i \in m : TRUE
            link == links[id]
            End(i, snap, resp) ==
                /\ procs' = [procs EXCEPT ![p] =
                       VerifyProc("done", caseId, token, passcode, i, snap, now, FALSE, resp)]
                /\ UNCHANGED guesses
        IN  IF passcode = ""
              THEN End(0, NoRow, AccessResponse(FALSE, "invalid", 400, Null, Null, Null))
            ELSE IF ~storeUp \/ Cardinality(m) > 1
              THEN End(0, NoRow, AccessResponse(FALSE, "invalid", 500, Null, Null, Null))
            ELSE IF m = {}
              THEN End(0, NoRow, AccessResponse(FALSE, "invalid", 200, Null, Null, Null))
            ELSE IF IsRevoked(link)
              THEN End(id, link, AccessResponse(FALSE, "revoked", 200, Null, Null, Null))
            ELSE IF IsExpired(link, now)
              THEN End(id, link, AccessResponse(FALSE, "expired", 200, Null, Null, Null))
            ELSE IF IsLocked(link, now)
              THEN End(id, link, AccessResponse(FALSE, "locked", 200, Null,
                                                link.locked_until, Null))
            ELSE /\ IF IsCorrect(link, passcode)
                      THEN link.view_count < MaxViews
                      ELSE link.attempt_count < in.cap /\ guesses[id] <= in.cap
                 /\ procs' = [procs EXCEPT ![p] =
                        VerifyProc("write", caseId, token, passcode, id, link, now,
                                   FALSE, NoResp)]
                 /\ guesses' = IF IsCorrect(link, passcode) THEN guesses
                               ELSE [guesses EXCEPT ![id] = @ + 1]
    /\ UNCHANGED <<now, storeUp, cases, links, tokenCtr>>

\* Steps 5-6: the update of the row.  Its result is not looked at: a failed
\* update leaves the row as it was and the handler goes on.
VerifyWrite(p) ==
    LET r == procs[p]
        applied == storeUp
    IN  /\ NoDone
        /\ r.kind = "verify" /\ r.pc = "write"
        /\ IF IsCorrect(r.snap, r.passcode)
             THEN /\ links' = IF applied
                              THEN [links EXCEPT ![r.id] = SuccessUpdate(@, r.snap, r.now)]
                              ELSE links
                  /\ guesses' = IF applied THEN [guesses EXCEPT ![r.id] = 0] ELSE guesses
                  /\ procs' = [procs EXCEPT ![p] = [r EXCEPT !.pc = "fetch", !.wrote = applied]]
             ELSE /\ links' = IF applied
                              THEN [links EXCEPT ![r.id] = WrongPasscodeUpdate(@, r.snap, r.now)]
                              ELSE links
                  /\ guesses' = guesses
                  /\ procs' = [procs EXCEPT ![p] =
                         [r EXCEPT !.pc = "done", !.wrote = applied,
                                   !.resp = WrongPasscodeResponse(r.snap)]]
        /\ UNCHANGED <<now, storeUp, cases, tokenCtr>>

\* Step 7: fetch the case by the case_id of the request.
VerifyFetch(p) ==
    LET r == procs[p]
        caseError == ~storeUp \/ ~CaseExists(r.case_id)
    IN  /\ NoDone
        /\ r.kind = "verify" /\ r.pc = "fetch"
        /\ procs' = [procs EXCEPT ![p] =
               [r EXCEPT !.pc = "done",
                         !.resp = IF caseError
                                  THEN AccessResponse(FALSE, "invalid", 200, Null, Null, Null)
                                  ELSE AccessResponse(TRUE, "success", 200, Null, Null,
                                                      CaseData(r.case_id))]]
        /\ UNCHANGED <<now, storeUp, cases, links, tokenCtr, guesses>>

\* ------------------------------------------------------------------------
\* Link issuance, shared by regenerate_link and the webhook generator
\* ------------------------------------------------------------------------
GenResponse(ok, status, skipped, why, caseId, token, passcode, expiresAt) ==
    [ok |-> ok, status |-> status, skipped |-> skipped, why |-> why,
     case_id |-> caseId, token |-> token, passcode |-> passcode,
     expires_at |-> expiresAt]

\* Variant: issuance that revokes nothing.
RevokeLinks_None(caseId, t) == links

\* .update({revoked_at: now}).eq("case_id", caseId).is("revoked_at", null)
RevokeLinks(caseId, t) ==
    [i \in LinkIds |->
        IF links[i].case_id = caseId /\ links[i].revoked_at = Null
        THEN [links[i] EXCEPT !.revoked_at = t]
        ELSE links[i]]

\* Date.now() + LINK_EXPIRY_DAYS days
ExpiresAt(t) == t + ExpiryTicks

\* Room for one more link row (the bound of the model on case_links).
RoomToIssue(maxLinks) == Len(links) + Cardinality(Issuers) < maxLinks

\* ------------------------------------------------------------------------
\* regenerate_link/index.ts
\* ------------------------------------------------------------------------
RegenProc(pc, caseId, token, passcode, expiresAt, resp) ==
    [kind |-> "regen", pc |-> pc, case_id |-> caseId, token |-> token,
     passcode |-> passcode, expires_at |-> expiresAt, resp |-> resp]

\* Verify the case exists.
RegenLookup(p, in) ==
    /\ NoDone
    /\ procs[p].pc = "idle"
    /\ RoomToIssue(in.maxLinks)
    /\ \E caseId \in CaseIds :
        procs' = [procs EXCEPT ![p] =
            IF ~storeUp \/ ~CaseExists(caseId)
            THEN RegenProc("done", caseId, 0, "", Null,
                     GenResponse(FALSE, 404, FALSE, "Case not found", Null, 0, "", Null))
            ELSE RegenProc("revoke", caseId, 0, "", Null, NoResp)]
    /\ UNCHANGED <<now, storeUp, cases, links, tokenCtr, guesses>>

\* Revoke existing links; the result of the update is not looked at.
RegenRevoke(p) ==
    LET r == procs[p]
    IN  /\ NoDone
        /\ r.kind = "regen" /\ r.pc = "revoke"
        /\ links' = IF storeUp THEN RevokeLinks(r.case_id, now) ELSE links
        /\ procs' = [procs EXCEPT ![p] = [r EXCEPT !.pc = "insert"]]
        /\ UNCHANGED <<now, storeUp, cases, tokenCtr, guesses>>

\* Variant: the error of the insert is not looked at.
RegenInsert_Unchecked(p) ==
    LET r == procs[p]
        rawToken == generateToken
    IN  /\ NoDone
        /\ r.kind = "regen" /\ r.pc = "insert"
        /\ \E rawPasscode \in GeneratedPasscodes :
            /\ IF storeUp
               THEN /\ tokenCtr' = tokenCtr + 1
                    /\ links' = Append(links,
                          NewLinkRow(r.case_id, hashWithPepper(rawToken, LINK_PEPPER),
                                     hashWithPepper(rawPasscode, LINK_PEPPER), ExpiresAt(now)))
                    /\ guesses' = Append(guesses, 0)
               ELSE UNCHANGED <<links, guesses, tokenCtr>>
            /\ procs' = [procs EXCEPT ![p] =
                   RegenProc("touch", r.case_id, rawToken, rawPasscode,
                             ExpiresAt(now), NoResp)]
        /\ UNCHANGED <<now, storeUp, cases>>

\* Generate token and passcode, insert the new row.
RegenInsert(p) ==
    LET r == procs[p]
        rawToken == generateToken
    IN  /\ NoDone
        /\ r.kind = "regen" /\ r.pc = "insert"
        /\ \E rawPasscode \in GeneratedPasscodes :
            IF storeUp
            THEN /\ tokenCtr' = tokenCtr + 1
                 /\ links' = Append(links,
                       NewLinkRow(r.case_id, hashWithPepper(rawToken, LINK_PEPPER),
                                  hashWithPepper(rawPasscode, LINK_PEPPER), ExpiresAt(now)))
                 /\ guesses' = Append(guesses, 0)
                 /\ procs' = [procs EXCEPT ![p] =
                        RegenProc("touch", r.case_id, rawToken, rawPasscode,
                                  ExpiresAt(now), NoResp)]
            ELSE /\ UNCHANGED <<links, guesses, tokenCtr>>
                 /\ procs' = [procs EXCEPT ![p] =
                        RegenProc("done", r.case_id, 0, "", Null,
                            GenResponse(FALSE, 500, FALSE, "Failed to create link",
                                        Null, 0, "", Null))]
        /\ UNCHANGED <<now, storeUp, cases>>

\* Update the case's last_generated_at (result not looked at), write the URL
\* back to the CRM (non-fatal) and answer with the raw token and passcode.
RegenTouch(p) ==
    LET r == procs[p]
    IN  /\ NoDone
        /\ r.kind = "regen" /\ r.pc = "touch"
        /\ cases' = IF storeUp
                    THEN [cases EXCEPT ![r.case_id].last_generated_at = now]
                    ELSE cases
        /\ procs' = [procs EXCEPT ![p] =
               [r EXCEPT !.pc = "done",
                         !.resp = GenResponse(TRUE, 200, FALSE, "", r.case_id,
                                              r.token, r.passcode, r.expires_at)]]
        /\ UNCHANGED <<now, storeUp, links, tokenCtr, guesses>>

\* ------------------------------------------------------------------------
\* generate_case_from_pipedrive: the webhook generator
\* ------------------------------------------------------------------------
WebhookProc(pc, payload, t, caseId, ext, resp) ==
    [kind |-> "webhook", pc |-> pc, payload |-> payload, now |-> t,
     case_id |-> caseId, ext |-> ext, resp |-> resp]

\* Variant: the secret is not compared.
Unauthorized_Never(payload) == FALSE

\* Step 1: secret !== expectedSecret
Unauthorized(payload) == ~payload.secretOk

\* Variant: only the current record is looked at.
NotChangedToYes_CurrentOnly(payload) == payload.cur # YES

\* Step 3: generate only when the field changed to the Yes option.
NotChangedToYes(payload) == payload.cur # YES \/ payload.prev = YES

\* Step 4: w2CountRaw ? Number(w2CountRaw) : 0
W2Count(payload) == IF Falsy(payload.w2) THEN Whole(0) ELSE ToNumber(payload.w2)

\* Step 5: the labels of the missing fields.
MissingFields(payload) ==
    (IF payload.title = "" THEN {"Deal Title (company name)"} ELSE {})
    \cup (IF payload.industry = "" THEN {"Industry"} ELSE {})
    \cup (IF Falsy(W2Count(payload)) \/ AtMostZero(W2Count(payload)) THEN {"W-2 Count"} ELSE {})

\* .eq("pipedrive_deal_id", dealId).maybeSingle(); an error leaves data null.
CasesOfDeal(d) == {c \in 1..Len(cases) : cases[c].deal = d}

ExistingCase(d) ==
    IF storeUp /\ Cardinality(CasesOfDeal(d)) = 1
    THEN CHOOSE c \in CasesOfDeal(d) : TRUE
    ELSE Null

\* Variant: the window closed at its end.
WithinWindow_Inclusive(existing, t) ==
    /\ existing # Null
    /\ cases[existing].last_generated_at # Null
    /\ t - cases[existing].last_generated_at <= WindowTicks

\* Step 6: now - lastGen < IDEMPOTENCY_WINDOW_SECONDS * 1000
WithinWindow(existing, t) ==
    /\ existing # Null
    /\ cases[existing].last_generated_at # Null
    /\ t - cases[existing].last_generated_at < WindowTicks

\* The rates of the edge functions.
EdgeRates == [rate_total |-> RATE_TOTAL, rate_er |-> RATE_ER, rate_ee |-> RATE_EE]

\* Steps 7-8: the row that is upserted.
CaseRow(payload, t) ==
    [deal |-> payload.deal, user_id |-> Null, w2_count |-> W2Count(payload),
     calc_total |-> Times(W2Count(payload), EdgeRates.rate_total),
     calc_er |-> Times(W2Count(payload), EdgeRates.rate_er),
     calc_ee |-> Times(W2Count(payload), EdgeRates.rate_ee),
     calc_inputs |-> [w2_count |-> W2Count(payload)] @@ EdgeRates,
     last_generated_at |-> t]

\* Steps 1-6: secret, payload, feedback guard, validation, idempotency lookup.
WebhookReceive(p, in) ==
    /\ NoDone
    /\ procs[p].pc = "idle"
    /\ \E payload \in in.payloads :
        LET existing == ExistingCase(payload.deal)
            End(ext, resp) ==
                procs' = [procs EXCEPT ![p] =
                    WebhookProc("done", payload, now, Null, ext, resp)]
        IN  IF Unauthorized(payload)
              THEN End({}, GenResponse(FALSE, 401, FALSE, "Unauthorized", Null, 0, "", Null))
            ELSE IF ~payload.hasBoth \/ NotChangedToYes(payload)
              THEN End({}, GenResponse(TRUE, 200, TRUE, "", Null, 0, "", Null))
            ELSE IF MissingFields(payload) # {}
              THEN End({"pipedrive_reset"},
                       GenResponse(FALSE, 200, FALSE, "Missing required fields",
                                   Null, 0, "", Null))
            ELSE IF WithinWindow(existing, now)
              THEN End({}, GenResponse(TRUE, 200, TRUE, "idempotency_window",
                                       existing, 0, "", Null))
            ELSE /\ RoomToIssue(in.maxLinks)
                 /\ procs' = [procs EXCEPT ![p] =
                        WebhookProc("upsert", payload, now, Null, {}, NoResp)]
    /\ UNCHANGED <<now, storeUp, cases, links, tokenCtr, guesses>>

\* Step 8: upsert on pipedrive_deal_id.
WebhookUpsert(p) ==
    LET r == procs[p]
        hit == CasesOfDeal(r.payload.deal)
        id == IF hit = {} THEN Len(cases) + 1 ELSE CHOOSE c \in hit : TRUE
    IN  /\ NoDone
        /\ r.kind = "webhook" /\ r.pc = "upsert"
        /\ IF storeUp
           THEN /\ cases' = IF hit = {} THEN Append(cases, CaseRow(r.payload, now))
                            ELSE [cases EXCEPT ![id] = CaseRow(r.payload, now)]
                /\ procs' = [procs EXCEPT ![p] = [r EXCEPT !.pc = "revoke", !.case_id = id]]
           ELSE /\ cases' = cases
                /\ procs' = [procs EXCEPT ![p] =
                       [r EXCEPT !.pc = "done",
                                 !.resp = GenResponse(FALSE, 500, FALSE,
                                     "Database upsert failed", Null, 0, "", Null)]]
        /\ UNCHANGED <<now, storeUp, links, tokenCtr, guesses>>

\* Variant: a failed revoke ends the request.
WebhookRevoke_Fatal(p) ==
    LET r == procs[p]
    IN  /\ NoDone
        /\ r.kind = "webhook" /\ r.pc = "revoke"
        /\ links' = IF storeUp THEN RevokeLinks(r.case_id, now) ELSE links
        /\ procs' = [procs EXCEPT ![p] =
               IF storeUp THEN [r EXCEPT !.pc = "insert"]
               ELSE [r EXCEPT !.pc = "done",
                              !.resp = GenResponse(FALSE, 500, FALSE,
                                  "Failed to revoke links", Null, 0, "", Null)]]
        /\ UNCHANGED <<now, storeUp, cases, tokenCtr, guesses>>

\* Step 9: revoke existing links; a failure is logged and ignored.
WebhookRevoke(p) ==
    LET r == procs[p]
    IN  /\ NoDone
        /\ r.kind = "webhook" /\ r.pc = "revoke"
        /\ links' = IF storeUp THEN RevokeLinks(r.case_id, now) ELSE links
        /\ procs' = [procs EXCEPT ![p] = [r EXCEPT !.pc = "insert"]]
        /\ UNCHANGED <<now, storeUp, cases, tokenCtr, guesses>>

\* Variant: a failed insert takes the revocations of this request back.
WebhookInsert_UndoesRevoke(p) ==
    LET r == procs[p]
    IN  /\ NoDone
        /\ r.kind = "webhook" /\ r.pc = "insert"
        /\ \E rawPasscode \in GeneratedPasscodes :
            IF storeUp
            THEN /\ tokenCtr' = tokenCtr + 1
                 /\ links' = Append(links,
                       NewLinkRow(r.case_id, hashWithPepper(generateToken, LINK_PEPPER),
                                  hashWithPepper(rawPasscode, LINK_PEPPER), ExpiresAt(now)))
                 /\ guesses' = Append(guesses, 0)
                 /\ procs' = [procs EXCEPT ![p] =
                        [r EXCEPT !.pc = "done", !.ext = {"slack", "pipedrive_url"},
                                  !.resp = GenResponse(TRUE, 200, FALSE, "", r.case_id,
                                               generateToken, rawPasscode, ExpiresAt(now))]]
            ELSE /\ links' = [l \in LinkIds |->
                                IF links[l].case_id = r.case_id /\ links[l].revoked_at = now
                                THEN [links[l] EXCEPT !.revoked_at = Null] ELSE links[l]]
                 /\ UNCHANGED <<guesses, tokenCtr>>
                 /\ procs' = [procs EXCEPT ![p] =
                        [r EXCEPT !.pc = "done",
                                  !.resp = GenResponse(FALSE, 500, FALSE,
                                      "Failed to create link", Null, 0, "", Null)]]
        /\ UNCHANGED <<now, storeUp, cases>>

\* Steps 10-15: generate, insert, post to chat, write back to the CRM, answer.
WebhookInsert(p) ==
    LET r == procs[p]
        rawToken == generateToken
    IN  /\ NoDone
        /\ r.kind = "webhook" /\ r.pc = "insert"
        /\ \E rawPasscode \in GeneratedPasscodes :
            IF storeUp
            THEN /\ tokenCtr' = tokenCtr + 1
                 /\ links' = Append(links,
                       NewLinkRow(r.case_id, hashWithPepper(rawToken, LINK_PEPPER),
                                  hashWithPepper(rawPasscode, LINK_PEPPER), ExpiresAt(now)))
                 /\ guesses' = Append(guesses, 0)
                 /\ procs' = [procs EXCEPT ![p] =
                        [r EXCEPT !.pc = "done", !.ext = {"slack", "pipedrive_url"},
                                  !.resp = GenResponse(TRUE, 200, FALSE, "", r.case_id,
                                               rawToken, rawPasscode, ExpiresAt(now))]]
            ELSE /\ UNCHANGED <<links, guesses, tokenCtr>>
                 /\ procs' = [procs EXCEPT ![p] =
                        [r EXCEPT !.pc = "done",
                                  !.resp = GenResponse(FALSE, 500, FALSE,
                                      "Failed to create link", Null, 0, "", Null)]]
        /\ UNCHANGED <<now, storeUp, cases>>

\* ------------------------------------------------------------------------
\* src/lib/calculator.ts and src/app/api/generate/route.ts: the platform's
\* own generation, and the dashboard that lists what it generated
\* ------------------------------------------------------------------------
\* Variant: the count is not tested for being whole.
validateInput_NoIntegerTest(input) ==
    (IF Falsy(input.company_name) \/ TypeOf(input.company_name) # "string"
           \/ Trim(input.company_name.str) = ""
     THEN <<"Business Name">> ELSE <<>>)
    \o (IF Falsy(input.industry) \/ TypeOf(input.industry) # "string"
           \/ Trim(input.industry.str) = ""
        THEN <<"Industry">> ELSE <<>>)
    \o (IF \/ input.w2_count = Undefined \/ input.w2_count = JsNull
           \/ TypeOf(input.w2_count) # "number"
           \/ ~NumberIsFinite(input.w2_count)
           \/ AtMostZero(input.w2_count)
        THEN <<"W-2 Count (must be a positive whole number)">> ELSE <<>>)

\* validateInput: the labels of the fields that are missing or invalid.
validateInput(input) ==
    (IF Falsy(input.company_name) \/ TypeOf(input.company_name) # "string"
           \/ Trim(input.company_name.str) = ""
     THEN <<"Business Name">> ELSE <<>>)
    \o (IF Falsy(input.industry) \/ TypeOf(input.industry) # "string"
           \/ Trim(input.industry.str) = ""
        THEN <<"Industry">> ELSE <<>>)
    \o (IF \/ input.w2_count = Undefined \/ input.w2_count = JsNull
           \/ TypeOf(input.w2_count) # "number"
           \/ ~NumberIsFinite(input.w2_count)
           \/ AtMostZero(input.w2_count)
           \/ ~NumberIsInteger(input.w2_count)
        THEN <<"W-2 Count (must be a positive whole number)">> ELSE <<>>)

\* Variant: the total of the edge functions beside the shares of the application.
LibRates_MixedTotal ==
    [rate_total |-> RATE_TOTAL, rate_er |-> LIB_RATE_ER, rate_ee |-> LIB_RATE_EE]

\* The rates of the application.
LibRates == [rate_total |-> LIB_RATE_TOTAL, rate_er |-> LIB_RATE_ER, rate_ee |-> LIB_RATE_EE]

\* calculateSavings of a whole, positive number; the tax year and the
\* explanation text play no part in what follows.
calculateSavings(w2Count) ==
    [calc_total |-> NumberTimes(w2Count, LibRates.rate_total),
     calc_er |-> NumberTimes(w2Count, LibRates.rate_er),
     calc_ee |-> NumberTimes(w2Count, LibRates.rate_ee),
     calc_inputs |-> [w2_count |-> w2Count] @@ LibRates]

GoodBody ==
    [company_name |-> Str("Acme"), industry |-> Str("Retail"),
     w2_count |-> Num(FALSE, Bits(1), FALSE)]

GenerateBodies ==
    {GoodBody,
     [GoodBody EXCEPT !.company_name = Str(" ")],
     [GoodBody EXCEPT !.industry = Str("")],
     [GoodBody EXCEPT !.w2_count = Num(FALSE, Bits(0), FALSE)]}

\* The signed-in user of the session; 0 is a request without a session.
Users == {1}

PlatformInputs ==
    [cap |-> GuessBudget, maxLinks |-> MaxLinks, bogus |-> {},
     caseIds |-> CaseIds,
     passcodes |-> Passcodes, payloads |-> {GoodPayload(1, 1)},
     users |-> Users \cup {0}, bodies |-> GenerateBodies, peppers |-> {LINK_PEPPER}]

\* `${appBaseUrl}/cases/${newCase.id}?t=${rawToken}`
CaseUrl(caseId, rawToken) == <<"/cases/", caseId, "?t=", rawToken>>

\* What a reader of a case_links row can take out of it: the token of the
\* URL; a SHA-256 digest gives nothing back.
TokensReadable(row) ==
    IF row.shareable_url = NoText THEN {} ELSE {row.shareable_url[4]}

GenerateProc(pc, user, body, caseId, token, expiresAt, resp) ==
    [kind |-> "generate", pc |-> pc, user |-> user, body |-> body,
     case_id |-> caseId, token |-> token, expires_at |-> expiresAt, resp |-> resp]

\* The cases row of the platform: no deal, the user that owns it.
PlatformCaseRow(user, body, t) ==
    [deal |-> Null, user_id |-> user, w2_count |-> body.w2_count,
     calc_total |-> calculateSavings(body.w2_count.int).calc_total,
     calc_er |-> calculateSavings(body.w2_count.int).calc_er,
     calc_ee |-> calculateSavings(body.w2_count.int).calc_ee,
     calc_inputs |-> calculateSavings(body.w2_count.int).calc_inputs,
     last_generated_at |-> t]

\* The case_links row of the platform: no passcode, the URL kept for copying.
PlatformLinkRow(caseId, tokenHash, expiresAt, url) ==
    [NewLinkRow(caseId, tokenHash, NoText, expiresAt) EXCEPT !.shareable_url = url]

\* Auth check, validation, calculation and the insert of the case.
GenerateStart(p, in) ==
    /\ NoDone
    /\ procs[p].pc = "idle"
    /\ Len(cases) < MaxCases
    /\ RoomToIssue(in.maxLinks)
    /\ \E user \in in.users, body \in in.bodies :
        LET End(status, why) ==
                /\ procs' = [procs EXCEPT ![p] =
                       GenerateProc("done", user, body, Null, 0, Null,
                           GenResponse(FALSE, status, FALSE, why, Null, 0, "", Null))]
                /\ cases' = cases
        IN  IF user = 0 THEN End(401, "Unauthorized")
            ELSE IF validateInput(body) # <<>>
              THEN End(400, "Missing or invalid fields")
            ELSE IF ~storeUp THEN End(500, "Failed to create proposal")
            ELSE /\ cases' = Append(cases, PlatformCaseRow(user, body, now))
                 /\ procs' = [procs EXCEPT ![p] =
                        GenerateProc("insert", user, body, Len(cases) + 1, 0, Null, NoResp)]
    /\ UNCHANGED <<now, storeUp, links, tokenCtr, guesses>>

\* The pepper of the environment, then token, URL and the insert of the
\* link; the answer carries the URL.  A pepper that is not set ends the
\* request after the case was inserted.
GenerateLink(p, in) ==
    LET r == procs[p]
        rawToken == generateToken
    IN  /\ NoDone
        /\ r.kind = "generate" /\ r.pc = "insert"
        /\ \E pepper \in in.peppers :
            IF pepper = ""
            THEN /\ UNCHANGED <<links, guesses, tokenCtr>>
                 /\ procs' = [procs EXCEPT ![p] =
                        [r EXCEPT !.pc = "done",
                                  !.resp = GenResponse(FALSE, 500, FALSE,
                                      "Server configuration error", Null, 0, "", Null)]]
            ELSE IF storeUp
            THEN /\ tokenCtr' = tokenCtr + 1
                 /\ links' = Append(links,
                       PlatformLinkRow(r.case_id, hashWithPepper(rawToken, pepper),
                                       ExpiresAt(now), CaseUrl(r.case_id, rawToken)))
                 /\ guesses' = Append(guesses, 0)
                 /\ procs' = [procs EXCEPT ![p] =
                        [r EXCEPT !.pc = "done", !.token = rawToken,
                                  !.expires_at = ExpiresAt(now),
                                  !.resp = GenResponse(TRUE, 200, FALSE, "", r.case_id,
                                               rawToken, "", ExpiresAt(now))]]
            ELSE /\ UNCHANGED <<links, guesses, tokenCtr>>
                 /\ procs' = [procs EXCEPT ![p] = [r EXCEPT !.pc = "cleanup"]]
        /\ UNCHANGED <<now, storeUp, cases>>

\* The link was not created: delete the case (result not looked at), fail.
GenerateCleanup(p) ==
    LET r == procs[p]
    IN  /\ NoDone
        /\ r.kind = "generate" /\ r.pc = "cleanup"
        /\ cases' = IF storeUp THEN [cases EXCEPT ![r.case_id] = DeletedCase] ELSE cases
        /\ procs' = [procs EXCEPT ![p] =
               [r EXCEPT !.pc = "done",
                         !.resp = GenResponse(FALSE, 500, FALSE, "Failed to create link",
                                              Null, 0, "", Null)]]
        /\ UNCHANGED <<now, storeUp, links, tokenCtr, guesses>>

\* DashboardPage: the user's cases with the shareable_url of their links.
DashboardRead(p, in) ==
    /\ NoDone
    /\ procs[p].pc = "idle"
    /\ \E user \in in.users :
        procs' = [procs EXCEPT ![p] =
            [kind |-> "dashboard", pc |-> "done", user |-> user,
             urls |-> IF user = 0 \/ ~storeUp THEN {}
                      ELSE {links[l].shareable_url : l \in
                               {i \in LinkIds : /\ CaseExists(links[i].case_id)
                                                /\ cases[links[i].case_id].user_id = user}}]]
    /\ UNCHANGED <<now, storeUp, cases, links, tokenCtr, guesses>>

\* ------------------------------------------------------------------------
\* Specifications
\* ------------------------------------------------------------------------
Init ==
    /\ now = 0
    /\ storeUp = TRUE
    /\ cases = <<>>
    /\ links = <<>>
    /\ tokenCtr = 0
    /\ guesses = <<>>
    /\ procs = [p \in Procs |-> Idle]

Handler(p, in) ==
    \/ VerifyLookup(p, in) \/ VerifyWrite(p) \/ VerifyFetch(p)
    \/ RegenLookup(p, in) \/ RegenRevoke(p) \/ RegenInsert(p) \/ RegenTouch(p)
    \/ WebhookReceive(p, in) \/ WebhookUpsert(p) \/ WebhookRevoke(p)
    \/ WebhookInsert(p)
    \/ Return(p)

\* Concurrent handlers against an available store.
Next ==
    \/ \E p \in Procs : Handler(p, RaceInputs)
    \/ Tick

Spec == Init /\ [][Next]_vars

\* One request at a time against an available store.
NextSeq ==
    \/ \E p \in SeqProcs : Handler(p, AllInputs)
    \/ Tick

SpecSeq == Init /\ [][NextSeq]_vars

\* One request at a time against a store whose operations can fail.
NextFault ==
    \/ \E p \in SeqProcs : Handler(p, RaceInputs)
    \/ Tick
    \/ StoreFail
    \/ StoreRecover

SpecFault == Init /\ [][NextFault]_vars

\* One request at a time against the one link of the first generation, with
\* the whole attempt budget open to wrong passcodes.
NextLock ==
    \/ \E p \in SeqProcs :
          \/ VerifyLookup(p, LockInputs) \/ VerifyWrite(p) \/ VerifyFetch(p)
          \/ WebhookReceive(p, LockInputs) \/ WebhookUpsert(p) \/ WebhookRevoke(p)
          \/ WebhookInsert(p)
          \/ Return(p)
    \/ Tick

SpecLock == Init /\ [][NextLock]_vars

\* Concurrent deliveries of webhook events, nothing else.
NextDeliver ==
    \/ \E p \in Procs :
          \/ WebhookReceive(p, RaceInputs) \/ WebhookUpsert(p) \/ WebhookRevoke(p)
          \/ WebhookInsert(p)
          \/ Return(p)
    \/ Tick

SpecDeliver == Init /\ [][NextDeliver]_vars

\* Concurrent verifications of the one link of the first generation.
NextRace ==
    \/ \E p \in Procs :
          \/ VerifyLookup(p, RacingInputs) \/ VerifyWrite(p) \/ VerifyFetch(p)
          \/ WebhookReceive(p, RacingInputs) \/ WebhookUpsert(p) \/ WebhookRevoke(p)
          \/ WebhookInsert(p)
          \/ Return(p)
    \/ Tick

SpecRace == Init /\ [][NextRace]_vars

\* One request at a time against the links of two generations, with the whole
\* attempt budget open to wrong passcodes.
NextTerminal ==
    \/ \E p \in SeqProcs :
          \/ VerifyLookup(p, TerminalInputs) \/ VerifyWrite(p) \/ VerifyFetch(p)
          \/ WebhookReceive(p, TerminalInputs) \/ WebhookUpsert(p) \/ WebhookRevoke(p)
          \/ WebhookInsert(p)
          \/ Return(p)
    \/ Tick

SpecTerminal == Init /\ [][NextTerminal]_vars

\* One request at a time, every issuance path and the dashboard, against a
\* store whose operations can fail.
NextPlatform ==
    \/ \E p \in SeqProcs :
          \/ GenerateStart(p, PlatformInputs) \/ GenerateLink(p, PlatformInputs)
          \/ GenerateCleanup(p)
          \/ DashboardRead(p, PlatformInputs)
          \/ RegenLookup(p, PlatformInputs) \/ RegenRevoke(p) \/ RegenInsert(p)
          \/ RegenTouch(p)
          \/ WebhookReceive(p, PlatformInputs) \/ WebhookUpsert(p) \/ WebhookRevoke(p)
          \/ WebhookInsert(p)
          \/ Return(p)
    \/ Tick
    \/ StoreFail
    \/ StoreRecover

SpecPlatform == Init /\ [][NextPlatform]_vars

\* ------------------------------------------------------------------------
\* Properties
\* ------------------------------------------------------------------------
\* A verification that found its link and has answered.
Answered(r) == r.kind = "verify" /\ r.pc = "done" /\ r.id # 0

\* The link was usable when the verification read it: not revoked, not
\* expired, not locked.
ReadUsable(r) ==
    /\ r.snap.revoked_at = Null
    /\ r.snap.expires_at >= r.now
    /\ (r.snap.locked_until = Null \/ r.snap.locked_until <= r.now)

RightPasscode(r) == <<"sha256", LINK_PEPPER, r.passcode>> = r.snap.passcode_hash

\* C1: on a non-revoked, non-expired link with attempt_count = MAX_ATTEMPTS-1
\* one more wrong passcode answers locked and sets locked_until in the
\* future; while locked_until is in the future every verification of the
\* (still non-revoked, non-expired) link answers locked, right passcode or
\* wrong, whatever attempt_count is, and leaves the row as it is.
C1_LockTakesPrecedence ==
    \A p \in Procs :
        LET r == procs[p] IN
        Answered(r) =>
            /\ (ReadUsable(r) /\ ~RightPasscode(r)
                    /\ r.snap.attempt_count = MAX_ATTEMPTS - 1)
                 => /\ r.resp.state = "locked"
                    /\ links[r.id].locked_until > now
                    /\ links[r.id].locked_until = r.now + LockTicks
            /\ (r.snap.revoked_at = Null /\ r.snap.expires_at >= r.now
                    /\ r.snap.locked_until # Null /\ r.snap.locked_until > r.now)
                 => /\ r.resp.state = "locked"
                    /\ ~r.resp.ok
                    /\ links[r.id] = r.snap

\* Witness of C1: the right passcode, presented while the lock that the tenth
\* wrong passcode set is still running, is answered locked.
C1_Witness ==
    \E p \in Procs :
        /\ Answered(procs[p])
        /\ RightPasscode(procs[p])
        /\ procs[p].snap.attempt_count = MAX_ATTEMPTS
        /\ procs[p].snap.locked_until > procs[p].now
        /\ procs[p].resp.state = "locked"

\* C2: the k-th consecutive wrong passcode against a link that was never
\* verified successfully answers wrong_passcode with MAX_ATTEMPTS - k
\* remaining and leaves locked_until null for k < MAX_ATTEMPTS, and answers
\* locked, with locked_until set, for k = MAX_ATTEMPTS.
C2_LockoutOnTenth ==
    \A p \in Procs :
        LET r == procs[p]
            k == guesses[r.id]
        IN  (Answered(r) /\ ReadUsable(r) /\ ~RightPasscode(r)
                /\ links[r.id].view_count = 0 /\ k <= MAX_ATTEMPTS)
            => IF k < MAX_ATTEMPTS
               THEN /\ r.resp.state = "wrong_passcode"
                    /\ r.resp.remaining_attempts = MAX_ATTEMPTS - k
                    /\ links[r.id].attempt_count = k
                    /\ links[r.id].locked_until = Null
               ELSE /\ r.resp.state = "locked"
                    /\ links[r.id].attempt_count = MAX_ATTEMPTS
                    /\ links[r.id].locked_until # Null

\* Witness of C2: the tenth wrong passcode in a row has been answered locked.
C2_Witness ==
    \E p \in Procs :
        /\ Answered(procs[p])
        /\ ~RightPasscode(procs[p])
        /\ links[procs[p].id].view_count = 0
        /\ guesses[procs[p].id] = MAX_ATTEMPTS
        /\ procs[p].resp.state = "locked"

\* C3: the right passcode on a non-revoked, non-expired, non-locked link
\* answers success, leaves attempt_count at 0 whatever it was, and leaves
\* view_count one above what it was.
C3_SuccessResets ==
    \A p \in Procs :
        LET r == procs[p] IN
        (Answered(r) /\ ReadUsable(r) /\ RightPasscode(r))
            => /\ r.resp.state = "success"
               /\ r.resp.ok
               /\ links[r.id].attempt_count = 0
               /\ links[r.id].view_count = r.snap.view_count + 1

\* Witness of C3: a success on a link that had failed attempts and views.
C3_Witness ==
    \E p \in Procs :
        /\ Answered(procs[p])
        /\ procs[p].resp.state = "success"
        /\ procs[p].snap.attempt_count >= MAX_ATTEMPTS
        /\ procs[p].snap.view_count > 0

\* C4 (as claimed): the read-then-write of the validator is atomic per row,
\* so that whenever no verification is in flight every wrong passcode that
\* was compared since the last success has been counted in attempt_count.
C4_EveryWrongAttemptCounted ==
    InFlight = {} => \A l \in LinkIds : links[l].attempt_count >= guesses[l]

\* C5 (as claimed): a wrong_passcode answer is given only when the increment
\* of attempt_count was persisted.
C5_WrongPasscodeIsRecorded ==
    \A p \in Procs :
        LET r == procs[p] IN
        (Answered(r) /\ r.resp.state = "wrong_passcode")
            => links[r.id].attempt_count = r.snap.attempt_count + 1

\* C6: a verification that reads a link with revoked_at set answers revoked,
\* right passcode or wrong, never gets to the passcode comparison and leaves
\* the row as it is.
C6_RevokedIsTerminal ==
    \A p \in Procs :
        LET r == procs[p] IN
        (r.kind = "verify" /\ r.id # 0 /\ r.snap.revoked_at # Null)
            => /\ r.pc = "done"
               /\ r.resp.state = "revoked"
               /\ ~r.resp.ok
               /\ ~r.wrote
               /\ links[r.id] = r.snap

\* Witness of C6: the right passcode on a revoked link is answered revoked.
C6_Witness ==
    \E p \in Procs :
        /\ Answered(procs[p])
        /\ RightPasscode(procs[p])
        /\ procs[p].snap.revoked_at # Null
        /\ procs[p].resp.state = "revoked"

\* C7 (as claimed): every verification of a link whose expires_at is before
\* now answers expired.
C7_ExpiredAlwaysExpired ==
    \A p \in Procs :
        LET r == procs[p] IN
        (Answered(r) /\ r.snap.expires_at < r.now) => r.resp.state = "expired"

\* C7 (amended): a verification that reads a link that is not revoked and
\* whose expires_at is before now answers expired, even with attempt_count 0
\* and the right passcode, never compares the passcode and leaves the row
\* as it is.
C7_ExpiredIsTerminal ==
    \A p \in Procs :
        LET r == procs[p] IN
        (r.kind = "verify" /\ r.id # 0 /\ r.snap.revoked_at = Null
                /\ r.snap.expires_at < r.now)
            => /\ r.pc = "done"
               /\ r.resp.state = "expired"
               /\ ~r.resp.ok
               /\ ~r.wrote
               /\ links[r.id] = r.snap

\* Witness of C7: the right passcode on an expired link without failed
\* attempts is answered expired.
C7_Witness ==
    \E p \in Procs :
        /\ Answered(procs[p])
        /\ RightPasscode(procs[p])
        /\ procs[p].snap.revoked_at = Null
        /\ procs[p].snap.attempt_count = 0
        /\ procs[p].snap.expires_at < procs[p].now
        /\ procs[p].resp.state = "expired"

\* An issuance that has answered with a new link.
Issued(r) ==
    r.kind \in {"regen", "webhook"} /\ r.pc = "done" /\ r.resp.ok /\ ~r.resp.skipped

NewerLink(i) == \E j \in LinkIds : j > i /\ links[j].case_id = links[i].case_id

\* C8: once an issuance for a Subject has completed, every verification of
\* a link the Subject had before answers revoked, and the token and passcode
\* the issuance returned are those of the Subject's one non-revoked link,
\* which answers success to them while it is neither expired nor locked.
C8_RotationRevokesOld ==
    /\ \A p \in Procs :
        LET r == procs[p] IN
        Answered(r) =>
            IF NewerLink(r.id)
            THEN r.resp.state = "revoked"
            ELSE (RightPasscode(r) /\ r.snap.expires_at >= r.now
                    /\ (r.snap.locked_until = Null \/ r.snap.locked_until <= r.now))
                 => r.resp.state = "success"
    /\ \A p \in Procs :
        LET r == procs[p]
            n == Len(links)
        IN  Issued(r) =>
            /\ links[n].case_id = r.resp.case_id
            /\ links[n].token_hash = <<"sha256", LINK_PEPPER, r.resp.token>>
            /\ links[n].passcode_hash = <<"sha256", LINK_PEPPER, r.resp.passcode>>
            /\ links[n].revoked_at = Null
            /\ links[n].expires_at = r.resp.expires_at
            /\ \A i \in 1..(n - 1) :
                links[i].case_id = r.resp.case_id => links[i].revoked_at # Null

\* Witness of C8: after a rotation the old link, presented with its right
\* passcode, has been answered revoked.
C8_Witness ==
    \E p \in Procs :
        /\ Answered(procs[p])
        /\ RightPasscode(procs[p])
        /\ NewerLink(procs[p].id)
        /\ procs[p].snap.expires_at >= procs[p].now
        /\ procs[p].resp.state = "revoked"

\* The trigger qualifies: secret, both records, changed to Yes, fields valid.
Qualifies(payload) ==
    /\ payload.secretOk /\ payload.hasBoth
    /\ payload.cur = YES /\ payload.prev # YES
    /\ payload.title # "" /\ payload.industry # ""
    /\ ~Falsy(W2Count(payload)) /\ ~AtMostZero(W2Count(payload))

GeneratedWithin(d, t) ==
    \E c \in 1..Len(cases) :
        /\ cases[c].deal = d
        /\ cases[c].last_generated_at # Null
        /\ t - cases[c].last_generated_at < WindowTicks

\* C9: a qualifying trigger that arrives, after the earlier one has
\* completed, less than the idempotency window after the Subject's
\* last_generated_at is answered as a skipped no-op with the id of the one
\* Subject of the external key, and creates, changes and revokes nothing; a
\* qualifying trigger outside the window goes on to generate.
C9_SecondTriggerSkipped ==
    [][
        \A p \in Procs :
            (procs[p].pc = "idle" /\ procs'[p].kind = "webhook"
                    /\ Qualifies(procs'[p].payload))
                => IF GeneratedWithin(procs'[p].payload.deal, now)
                   THEN /\ procs'[p].pc = "done"
                        /\ procs'[p].resp.ok /\ procs'[p].resp.skipped
                        /\ procs'[p].resp.why = "idempotency_window"
                        /\ {c \in 1..Len(cases) : cases[c].deal = procs'[p].payload.deal}
                               = {procs'[p].resp.case_id}
                        /\ cases' = cases /\ links' = links
                   ELSE procs'[p].pc = "upsert"
    ]_vars

\* Witness of C9: a trigger has been skipped for a Subject that has its link.
C9_Witness ==
    \E p \in Procs :
        /\ procs[p].kind = "webhook" /\ procs[p].pc = "done"
        /\ procs[p].resp.skipped
        /\ procs[p].resp.why = "idempotency_window"
        /\ Len(cases) = 1 /\ Len(links) = 1
        /\ links[1].case_id = procs[p].resp.case_id

\* C10 (as claimed): deliveries of one event never lead to two links of one
\* Subject being created within one idempotency window.
C10_OneLinkPerWindow ==
    \A i, j \in LinkIds :
        (i # j /\ links[i].case_id = links[j].case_id)
            => \/ links[i].expires_at - links[j].expires_at >= WindowTicks
               \/ links[j].expires_at - links[i].expires_at >= WindowTicks

\* C11 (as claimed): in every state of the store no case_links row holds a
\* value from which a raw token can be read, and nothing the dashboard
\* selects from the store gives a raw token back.
C11_OnlyHashesPersist ==
    /\ \A l \in LinkIds : TokensReadable(links[l]) = {}
    /\ \A p \in Procs :
        procs[p].kind = "dashboard" => \A u \in procs[p].urls : u = NoText

\* C12: a verification whose token and case_id match no link, or match a
\* link that is revoked, expired or locked at the time of the request, ends
\* at that check: it answers invalid, revoked, expired or locked, goes on to
\* no update, and every row of case_links and cases is as it was; a wrong
\* passcode sent during a lock leaves attempt_count where it stood.
C12_TerminalChecksDoNotWrite ==
    [][
        \A p \in Procs :
            LET r == procs'[p]
                m == {i \in LinkIds : /\ links[i].token_hash = <<"sha256", LINK_PEPPER, r.token>>
                                      /\ links[i].case_id = r.case_id}
            IN  (procs[p].pc = "idle" /\ r.kind = "verify" /\ r.passcode # ""
                    /\ \A i \in m : \/ links[i].revoked_at # Null
                                    \/ links[i].expires_at < now
                                    \/ (links[i].locked_until # Null
                                            /\ links[i].locked_until > now))
                => /\ r.pc = "done"
                   /\ ~r.wrote
                   /\ r.resp.state \in {"invalid", "revoked", "expired", "locked"}
                   /\ ~r.resp.ok
                   /\ links' = links
                   /\ cases' = cases
    ]_vars

\* Witness of C12: a wrong passcode during a lock has been answered locked
\* and the link still has the attempt_count that locked it.
C12_Witness ==
    \E p \in Procs :
        /\ Answered(procs[p])
        /\ ~RightPasscode(procs[p])
        /\ procs[p].snap.locked_until # Null
        /\ procs[p].snap.locked_until > procs[p].now
        /\ procs[p].resp.state = "locked"
        /\ links[procs[p].id].attempt_count = MAX_ATTEMPTS
        /\ guesses[procs[p].id] = MAX_ATTEMPTS

\* C13 (as claimed): in every step of every interleaving of verifications and
\* issuances the attempt_count of a link stays or grows, except in the write
\* of a successful verification of that link, which sets it to 0.
C13_AttemptCountNeverDecreases ==
    [][
        \A l \in 1..Len(links) :
            \/ links'[l].attempt_count >= links[l].attempt_count
            \/ /\ links'[l].attempt_count = 0
               /\ \E p \in Procs : /\ procs[p].kind = "verify"
                                   /\ procs[p].pc = "write"
                                   /\ procs[p].id = l
                                   /\ procs'[p].pc = "fetch"
    ]_vars

\* C14: no step of any handler clears or changes a revoked_at that is set, or
\* changes expires_at, also not the write of a verification that read the
\* row before it was revoked; and a verification that arrives when its link
\* is revoked or expired answers revoked or expired, never success or
\* wrong_passcode.
C14_RevokedAndExpiredStay ==
    [][
        /\ \A l \in 1..Len(links) :
            /\ links'[l].expires_at = links[l].expires_at
            /\ links[l].revoked_at # Null => links'[l].revoked_at = links[l].revoked_at
        /\ \A p \in Procs :
            LET r == procs'[p]
                m == {i \in LinkIds : /\ links[i].token_hash = <<"sha256", LINK_PEPPER, r.token>>
                                      /\ links[i].case_id = r.case_id}
            IN  (procs[p].pc = "idle" /\ r.kind = "verify" /\ r.passcode # ""
                    /\ m # {}
                    /\ \A i \in m : links[i].revoked_at # Null \/ links[i].expires_at < now)
                => /\ r.pc = "done"
                   /\ r.resp.state \in {"revoked", "expired"}
    ]_vars

\* Witness of C14: a verification read its link before the revocation and
\* wrote after it, and the link is still revoked.
C14_Witness ==
    \E p \in Procs :
        /\ procs[p].kind = "verify"
        /\ procs[p].pc \in {"fetch", "done"}
        /\ procs[p].wrote
        /\ procs[p].snap.revoked_at = Null
        /\ links[procs[p].id].revoked_at # Null

\* C15 (as claimed): whenever no issuance is in progress every case has at
\* most one link that is neither revoked nor expired.
C15_AtMostOneActiveLink ==
    Issuers = {} =>
        \A c \in 1..Len(cases) :
            Cardinality({l \in LinkIds : /\ links[l].case_id = c
                                         /\ links[l].revoked_at = Null
                                         /\ links[l].expires_at >= now}) <= 1

\* The links that hold the token of a request, whatever their case.
LinksOfToken(token) ==
    {i \in LinkIds : links[i].token_hash = <<"sha256", LINK_PEPPER, token>>}

\* C16: for a request with a passcode whose (token, case_id) matches no link
\* the answer is one and the same response, state invalid with status 200 and
\* nothing else, whether the token is the token of a link of another case or
\* of no link at all, and no row was written.
C16_NotFoundIsUniform ==
    \A p \in Procs :
        LET r == procs[p] IN
        (r.kind = "verify" /\ r.passcode # ""
            /\ \A i \in LinksOfToken(r.token) : links[i].case_id # r.case_id)
        => /\ r.pc = "done"
           /\ r.resp = [ok |-> FALSE, state |-> "invalid", status |-> 200,
                        remaining_attempts |-> Null, locked_until |-> Null,
                        data |-> Null]
           /\ r.id = 0
           /\ ~r.wrote

\* Witness of C16: the token of a link of one case, sent with the id of
\* another case and the link's right passcode, has been answered invalid.
C16_Witness ==
    \E p \in Procs :
        /\ procs[p].kind = "verify" /\ procs[p].pc = "done"
        /\ procs[p].resp.state = "invalid" /\ procs[p].resp.status = 200
        /\ \E i \in LinksOfToken(procs[p].token) :
            /\ links[i].case_id # procs[p].case_id
            /\ links[i].revoked_at = Null
            /\ links[i].passcode_hash = <<"sha256", LINK_PEPPER, procs[p].passcode>>

\* C17 (as claimed): when the lookup of the link fails because the store is
\* unavailable the answer has a state that is neither the not-found state
\* (invalid) nor revoked, expired, locked, wrong_passcode or success, and
\* nothing was written.
C17_LookupFailureIsGeneric ==
    \A p \in Procs :
        LET r == procs[p] IN
        (r.kind = "verify" /\ r.pc = "done" /\ r.passcode # "" /\ r.id = 0 /\ ~storeUp)
        => /\ r.resp.state \notin {"invalid", "revoked", "expired", "locked",
                                   "wrong_passcode", "success"}
           /\ ~r.wrote

\* C18 (as claimed): every locked answer carries the instant at which the
\* lock ends, the answer of the already-locked check and the answer of the
\* wrong passcode that sets the lock alike.
C18_LockedCarriesRetryAfter ==
    \A p \in Procs :
        LET r == procs[p] IN
        (Answered(r) /\ r.resp.state = "locked")
        => /\ r.resp.locked_until # Null
           /\ r.resp.locked_until = links[r.id].locked_until

\* C19: a webhook request whose secret is not the configured one is answered
\* 401 and not ok in its first step, with the same answer whatever the store
\* holds; no row of cases or case_links is written, no token is drawn, and
\* neither the CRM nor the chat is called.
C19_BadSecretRejectedFirst ==
    [][
        \A p \in Procs :
            LET r == procs'[p] IN
            (procs[p].pc = "idle" /\ r.kind = "webhook" /\ ~r.payload.secretOk)
            => /\ r.pc = "done"
               /\ r.resp = [ok |-> FALSE, status |-> 401, skipped |-> FALSE,
                            why |-> "Unauthorized", case_id |-> Null, token |-> 0,
                            passcode |-> "", expires_at |-> Null]
               /\ r.ext = {}
               /\ r.case_id = Null
               /\ cases' = cases /\ links' = links /\ tokenCtr' = tokenCtr
    ]_vars

\* Witness of C19: a request with a wrong secret, otherwise qualifying, was
\* rejected while the deal's case was outside the idempotency window.
C19_Witness ==
    \E p \in Procs :
        /\ procs[p].kind = "webhook" /\ procs[p].pc = "done"
        /\ ~procs[p].payload.secretOk
        /\ procs[p].resp.status = 401
        /\ Len(cases) > 0
        /\ ~GeneratedWithin(procs[p].payload.deal, now)

\* C20: when the insert of the new case_links row fails in regenerate_link,
\* in the webhook generator or in /api/generate, case_links is left as it
\* was, the handler goes on to nothing but its failure answer (after the
\* clean-up of the case in /api/generate), and that answer is not ok and
\* carries no token, passcode or case; an answer that is ok carries the token
\* of a row that was stored.
C20_FailedInsertFailsIssuance ==
    [][
        \A p \in Procs :
            LET r == procs[p]
                q == procs'[p]
            IN  /\ (r.kind \in {"regen", "webhook", "generate"} /\ r.pc = "insert"
                        /\ ~storeUp /\ q # r)
                    => /\ links' = links
                       /\ q.pc = IF r.kind = "generate" THEN "cleanup" ELSE "done"
                /\ (r.kind = "generate" /\ r.pc = "cleanup" /\ q # r)
                    => links' = links /\ q.pc = "done"
                /\ (r.kind \in {"regen", "webhook", "generate"}
                        /\ r.pc \in {"insert", "cleanup"} /\ links' = links
                        /\ q # r /\ q.pc = "done")
                    => /\ ~q.resp.ok
                       /\ q.resp.status = 500
                       /\ q.resp.token = 0 /\ q.resp.passcode = ""
                       /\ q.resp.case_id = Null
                /\ (q.kind \in {"regen", "webhook", "generate"} /\ q.pc = "done"
                        /\ q # r /\ q.resp.ok /\ ~q.resp.skipped)
                    => \E l \in 1..Len(links') :
                          links'[l].token_hash = <<"sha256", LINK_PEPPER, q.resp.token>>
    ]_vars

\* Witness of C20: /api/generate has answered that the link could not be
\* created, and no link of its case exists.
C20_Witness ==
    \E p \in Procs :
        /\ procs[p].kind = "generate" /\ procs[p].pc = "done"
        /\ procs[p].resp.why = "Failed to create link"
        /\ ~procs[p].resp.ok
        /\ \A l \in LinkIds : links[l].case_id # procs[p].case_id

\* ------------------------------------------------------------------------
\* The pure functions of src/lib/calculator.ts, called on their own
\* ------------------------------------------------------------------------
CalcProc(pc, w2Count, result) ==
    [kind |-> "calculate", pc |-> pc, w2_count |-> w2Count, result |-> result]

ValidateProc(pc, input, errors) ==
    [kind |-> "validate", pc |-> pc, input |-> input, errors |-> errors]

\* The whole positive counts the calculation is called with: the small ones
\* and the ones around 2^LargeExponent.
W2Counts ==
    {Bits(n) : n \in 1..MaxW2Count}
    \cup {Pow2Plus(LargeExponent, j) : j \in 0..MaxOffset}

\* The values a field of the input can hold.
TextValues ==
    {Str("Acme"), Str(" Acme "), Str(""), Str(" "), Undefined, JsNull, JsTrue,
     Num(FALSE, Bits(123), FALSE), Num(FALSE, Bits(0), FALSE)}

CountValues ==
    {Num(FALSE, Bits(1), FALSE), Num(FALSE, Bits(MaxW2Count), FALSE),
     Num(FALSE, Pow2Plus(LargeExponent, 1), FALSE),
     Num(FALSE, Bits(0), FALSE), Num(TRUE, Bits(5), FALSE),
     Num(FALSE, Bits(10), TRUE), Num(FALSE, Bits(0), TRUE), Num(TRUE, Bits(0), TRUE),
     Str("25"), Str(""), JsNull, Undefined, JsTrue, NaN, Infinity,
     [Infinity EXCEPT !.neg = TRUE]}

ValidateInputs ==
    [company_name : TextValues, industry : TextValues, w2_count : CountValues]

\* A call is about to be made.
InitCalc ==
    /\ now = 0
    /\ storeUp = TRUE
    /\ cases = <<>>
    /\ links = <<>>
    /\ tokenCtr = 0
    /\ guesses = <<>>
    /\ \E call \in {CalcProc("call", n, <<>>) : n \in W2Counts}
                   \cup {ValidateProc("call", i, <<>>) : i \in ValidateInputs} :
          procs = [p \in Procs |-> IF p \in SeqProcs THEN call ELSE Idle]

Calculate(p) ==
    /\ procs[p].kind = "calculate" /\ procs[p].pc = "call"
    /\ procs' = [procs EXCEPT ![p] =
           CalcProc("done", procs[p].w2_count, calculateSavings(procs[p].w2_count))]
    /\ UNCHANGED <<now, storeUp, cases, links, tokenCtr, guesses>>

Validate(p) ==
    /\ procs[p].kind = "validate" /\ procs[p].pc = "call"
    /\ procs' = [procs EXCEPT ![p] =
           ValidateProc("done", procs[p].input, validateInput(procs[p].input))]
    /\ UNCHANGED <<now, storeUp, cases, links, tokenCtr, guesses>>

NextCalc ==
    \E p \in SeqProcs : Calculate(p) \/ Validate(p) \/ Return(p)

SpecCalc == InitCalc /\ [][NextCalc]_vars

\* The calls of calculateSavings that have returned.
Calculated == {p \in Procs : procs[p].kind = "calculate" /\ procs[p].pc = "done"}

\* The calls of validateInput that have returned.
Validated == {p \in Procs : procs[p].kind = "validate" /\ procs[p].pc = "done"}

\* C21: for every positive integer n, the total that calculateSavings(n)
\* reports is the sum of the employer share and the employee share it reports.
C21_TotalIsSum ==
    \A p \in Calculated :
        procs[p].result.calc_total
            = PlusBits(procs[p].result.calc_er, procs[p].result.calc_ee, 0)

\* C22: in each set of configured rates the program uses, those of the
\* application and those of the edge functions, the total rate is exactly the
\* employer rate plus the employee rate; so are the rates every case records.
C22_RatesAddUp ==
    /\ \A r \in {LibRates, EdgeRates} : r.rate_total = r.rate_er + r.rate_ee
    /\ \A c \in 1..Len(cases) :
          CaseExists(c) =>
              cases[c].calc_inputs.rate_total
                  = cases[c].calc_inputs.rate_er + cases[c].calc_inputs.rate_ee

\* A case of the webhook and a case of the platform are stored, each with the
\* rates of its side.
C22_Witness ==
    /\ \E c \in 1..Len(cases) :
          CaseExists(c) /\ cases[c].calc_inputs.rate_total = RATE_TOTAL
    /\ \E c \in 1..Len(cases) :
          CaseExists(c) /\ cases[c].calc_inputs.rate_total = LIB_RATE_TOTAL

\* C23: for every positive integer n, calculateSavings(n) reports n * 3356,
\* n * 1186 and n * 2170 and records n and the three rates in calc_inputs;
\* for n = 20 it reports 67120, 23720 and 43400.
C23_ProductsOfCount ==
    \A p \in Calculated :
        LET n == procs[p].w2_count
            r == procs[p].result
        IN  /\ r.calc_total = TimesBits(n, LIB_RATE_TOTAL, 0)
            /\ r.calc_er = TimesBits(n, LIB_RATE_ER, 0)
            /\ r.calc_ee = TimesBits(n, LIB_RATE_EE, 0)
            /\ r.calc_inputs =
                  [w2_count |-> n, rate_total |-> LIB_RATE_TOTAL,
                   rate_er |-> LIB_RATE_ER, rate_ee |-> LIB_RATE_EE]
            /\ n = Bits(20) =>
                  /\ Value(r.calc_total) = 67120
                  /\ Value(r.calc_er) = 23720
                  /\ Value(r.calc_ee) = 43400

\* A field holds a string that is not empty once trimmed.
NonEmptyText(v) == v.type = "string" /\ Trim(v.str) # ""

\* A field holds a finite whole number above zero.
PositiveWhole(v) ==
    v.type = "number" /\ v.cls = "finite" /\ ~v.neg /\ ~v.frac /\ v.int # <<>>

\* The labels validateInput owes an input: one per failing field.
FailingLabels(input) ==
    (IF NonEmptyText(input.company_name) THEN {} ELSE {"Business Name"})
    \cup (IF NonEmptyText(input.industry) THEN {} ELSE {"Industry"})
    \cup (IF PositiveWhole(input.w2_count) THEN {}
          ELSE {"W-2 Count (must be a positive whole number)"})

\* C24: validateInput returns exactly the labels of the failing fields, one
\* label per failing field: the name's and the industry's when the field is
\* not a string that is non-empty after trimming, the count's when the field
\* is not a finite whole number above zero; the result is empty exactly when
\* every field is valid.
C24_LabelsOfFailingFields ==
    \A p \in Validated :
        LET errors == procs[p].errors
            input == procs[p].input
        IN  /\ {errors[i] : i \in 1..Len(errors)} = FailingLabels(input)
            /\ Len(errors) = Cardinality(FailingLabels(input))
            /\ errors = <<>> <=>
                  /\ NonEmptyText(input.company_name)
                  /\ NonEmptyText(input.industry)
                  /\ PositiveWhole(input.w2_count)

\* A call with a padded name, a numeric industry and a fractional count has
\* returned the labels of the industry and of the count.
C24_Witness ==
    \E p \in Validated :
        /\ procs[p].input.company_name = Str(" Acme ")
        /\ procs[p].input.industry.type = "number"
        /\ procs[p].input.w2_count = Num(FALSE, Bits(10), TRUE)
        /\ Len(procs[p].errors) = 2

\* The lock of a row that was read has run out: it was locked once, for a
\* tenth failed attempt or a later one, and locked_until is not ahead of t.
LockElapsed(link, t) ==
    /\ link.locked_until # Null
    /\ link.locked_until <= t
    /\ link.attempt_count >= MAX_ATTEMPTS

\* C25: once locked_until has passed the link accepts attempts again and
\* attempt_count keeps its value; a correct passcode then answers success and
\* sets attempt_count to 0, a wrong one raises the kept count by one and
\* answers locked at once, with a new locked_until in the future.
C25_ElapsedLockKeepsCount ==
    [][\A p \in Procs :
          LET r == procs[p]
              q == procs'[p]
          IN  /\ (/\ r.pc = "idle" /\ q.kind = "verify" /\ q.id # 0
                  /\ ~IsRevoked(q.snap) /\ ~IsExpired(q.snap, q.now)
                  /\ LockElapsed(q.snap, q.now))
                 => /\ q.pc = "write"
                    /\ links' = links
              /\ (/\ r.kind = "verify" /\ r.pc = "write"
                  /\ q.pc # "write" /\ LockElapsed(r.snap, r.now))
                 => IF IsCorrect(r.snap, r.passcode)
                    THEN /\ q.pc = "fetch"
                         /\ links'[r.id].attempt_count = 0
                    ELSE /\ q.pc = "done"
                         /\ q.resp.state = "locked"
                         /\ links'[r.id].attempt_count = r.snap.attempt_count + 1
                         /\ links'[r.id].locked_until > now
              /\ (/\ r.kind = "verify" /\ r.pc = "fetch"
                  /\ q.pc = "done" /\ LockElapsed(r.snap, r.now))
                 => q.resp.state = "success"
    ]_vars

\* A wrong passcode after the lock ran out was answered locked: the count
\* went from the maximum to one more and the row is locked again.
C25_Witness ==
    \E p \in Procs :
        /\ Answered(procs[p])
        /\ procs[p].resp.state = "locked"
        /\ procs[p].wrote
        /\ LockElapsed(procs[p].snap, procs[p].now)
        /\ links[procs[p].id].attempt_count = MAX_ATTEMPTS + 1
        /\ links[procs[p].id].locked_until > now

\* C26: when the revoke of an issuance races with a verification of the old
\* link, a verification that reads the row once it is revoked answers
\* revoked; a success is only answered by a verification that read the row
\* before it was revoked, once per request; no write of a verification
\* takes the revocation back or touches another row, and the link that the
\* issuance inserts starts usable.
C26_RevokeRacesVerification ==
    [][\A p \in Procs :
          LET r == procs[p]
              q == procs'[p]
          IN  /\ (/\ r.pc = "idle" /\ q.kind = "verify" /\ q.id # 0
                  /\ IsRevoked(links[q.id]))
                 => q.pc = "done" /\ q.resp.state = "revoked"
              /\ (/\ q.kind = "verify" /\ q.pc = "done" /\ r.pc # "done"
                  /\ q.resp.state = "success")
                 => /\ ~IsRevoked(q.snap)
                    /\ r.pc = "fetch"
              /\ (r.kind = "verify" /\ r.pc = "write" /\ q.pc # "write")
                 => /\ Len(links') = Len(links)
                    /\ \A l \in LinkIds :
                          /\ l # r.id => links'[l] = links[l]
                          /\ links'[l].revoked_at = links[l].revoked_at
              /\ (r.kind \in {"regen", "webhook"} /\ Len(links') = Len(links) + 1)
                 => /\ links'[Len(links')].revoked_at = Null
                    /\ links'[Len(links')].locked_until = Null
                    /\ links'[Len(links')].attempt_count = 0
                    /\ links'[Len(links')].expires_at > now
                    /\ \A l \in LinkIds : links'[l] = links[l]
    ]_vars

\* A verification answered success on a link that was revoked while the
\* request was in flight, and the same subject has a newer link that is not
\* revoked.
C26_Witness ==
    \E p \in Procs :
        /\ Answered(procs[p])
        /\ procs[p].resp.state = "success"
        /\ IsRevoked(links[procs[p].id])
        /\ \E l \in LinkIds :
              /\ l > procs[p].id
              /\ links[l].case_id = links[procs[p].id].case_id
              /\ ~IsRevoked(links[l])
              /\ links[l].view_count = 0

\* C27: when the step that revokes the predecessors fails, the issuance goes
\* on: the rows stay as they were, the new link is inserted and answered,
\* and a link, new or old, that is not revoked, not expired and not locked
\* verifies with success for its token and passcode.
C27_FailedRevokeIsNotFatal ==
    [][\A p \in Procs :
          LET r == procs[p]
              q == procs'[p]
          IN  /\ (/\ r.kind \in {"regen", "webhook"} /\ r.pc = "revoke"
                  /\ q.pc # "revoke" /\ ~storeUp)
                 => q.pc = "insert" /\ links' = links
              /\ (/\ r.kind \in {"regen", "webhook"} /\ r.pc = "insert"
                  /\ q.pc # "insert" /\ storeUp)
                 => /\ Len(links') = Len(links) + 1
                    /\ \A l \in LinkIds : links'[l] = links[l]
                    /\ r.kind = "webhook" => q.resp.ok /\ q.resp.token = tokenCtr + 1
                    /\ r.kind = "regen" => q.pc = "touch" /\ q.token = tokenCtr + 1
              /\ (/\ r.pc = "idle" /\ q.kind = "verify" /\ q.id # 0
                  /\ ~IsRevoked(links[q.id]) /\ ~IsExpired(links[q.id], now)
                  /\ ~IsLocked(links[q.id], now)
                  /\ IsCorrect(links[q.id], q.passcode))
                 => q.pc = "write"
              /\ (/\ r.kind = "verify" /\ r.pc = "write" /\ q.pc # "write"
                  /\ IsCorrect(r.snap, r.passcode))
                 => q.pc = "fetch"
              /\ (/\ r.kind = "verify" /\ r.pc = "fetch" /\ q.pc = "done"
                  /\ storeUp /\ CaseExists(r.case_id))
                 => q.resp.state = "success"
    ]_vars

\* The revoke of the second issuance failed: the new link has verified with
\* success while the old link of the same subject is still neither revoked
\* nor expired.
C27_Witness ==
    \E p \in Procs :
        /\ Answered(procs[p])
        /\ procs[p].resp.state = "success"
        /\ \E l \in LinkIds :
              /\ l < procs[p].id
              /\ links[l].case_id = links[procs[p].id].case_id
              /\ ~IsRevoked(links[l])
              /\ ~IsExpired(links[l], now)

\* C28: the issuance revokes the earlier links before the new link is known
\* to be stored and never takes the revocation back: after the revoke the
\* subject has no link that is not revoked, and an insert that then fails
\* ends the request with an error and leaves the rows as they are.
C28_RevokeBeforeInsertNoUndo ==
    [][\A p \in Procs :
          LET r == procs[p]
              q == procs'[p]
          IN  /\ (/\ r.kind \in {"regen", "webhook"} /\ r.pc = "revoke"
                  /\ q.pc # "revoke" /\ storeUp)
                 => /\ q.pc = "insert"
                    /\ Len(links') = Len(links)
                    /\ \A l \in LinkIds :
                          links'[l].case_id = r.case_id => IsRevoked(links'[l])
              /\ (/\ r.kind \in {"regen", "webhook"} /\ r.pc = "insert"
                  /\ q.pc # "insert" /\ ~storeUp)
                 => /\ q.pc = "done"
                    /\ ~q.resp.ok
                    /\ links' = links
    ]_vars

\* An issuance has failed at the insert after its revoke went through: the
\* subject has links, the last of them revoked at this very time, and none
\* that is not revoked.
C28_Witness ==
    \E p \in Procs :
        /\ procs[p].kind \in {"regen", "webhook"}
        /\ procs[p].pc = "done"
        /\ ~procs[p].resp.ok
        /\ procs[p].resp.why = "Failed to create link"
        /\ \E l \in LinkIds :
              links[l].case_id = procs[p].case_id /\ links[l].revoked_at = now
        /\ ActiveLinks(procs[p].case_id) = {}

\* C29: the validator runs its tests in the order not found, revoked,
\* expired, locked, passcode: a row that is revoked answers revoked even if
\* it is also expired, a row that is expired and not revoked answers expired
\* even if it is also locked, a locked row that is neither answers locked,
\* and a passcode is compared only when a row was found and none of the
\* three lifecycle tests fired.
C29_OrderOfChecks ==
    [][\A p \in Procs :
          LET q == procs'[p]
          IN  (procs[p].pc = "idle" /\ q.kind = "verify")
              => /\ (q.id # 0 /\ IsRevoked(q.snap)) => q.resp.state = "revoked"
                 /\ (q.id # 0 /\ ~IsRevoked(q.snap) /\ IsExpired(q.snap, q.now))
                    => q.resp.state = "expired"
                 /\ (/\ q.id # 0 /\ ~IsRevoked(q.snap) /\ ~IsExpired(q.snap, q.now)
                     /\ IsLocked(q.snap, q.now))
                    => q.resp.state = "locked"
                 /\ q.id = 0 => q.pc = "done" /\ q.resp.state = "invalid"
                 /\ (q.pc = "write" \/ guesses' # guesses)
                    => /\ q.id # 0
                       /\ ~IsRevoked(q.snap)
                       /\ ~IsExpired(q.snap, q.now)
                       /\ ~IsLocked(q.snap, q.now)
    ]_vars

\* A request on a link that is both expired and still locked was answered
\* expired.
C29_Witness ==
    \E p \in Procs :
        /\ Answered(procs[p])
        /\ IsExpired(procs[p].snap, procs[p].now)
        /\ IsLocked(procs[p].snap, procs[p].now)
        /\ procs[p].resp.state = "expired"

\* C30 (as claimed): view_count and last_viewed_at change only in a request
\* answered success; a request answered anything else, the invalid answer
\* after a correct passcode whose case could not be fetched included, leaves
\* view_count and last_viewed_at as they were read, and attempt_count too
\* unless the answer is about a wrong passcode.
C30_OnlySuccessCountsViews ==
    \A p \in Procs :
        LET r == procs[p]
        IN  (Answered(r) /\ r.resp.state # "success")
            => /\ links[r.id].view_count = r.snap.view_count
               /\ links[r.id].last_viewed_at = r.snap.last_viewed_at
               /\ r.resp.state \notin {"wrong_passcode", "locked"}
                  => links[r.id].attempt_count = r.snap.attempt_count

\* ------------------------------------------------------------------------
\* The webhook generator on the schema of migration 00002
\* ------------------------------------------------------------------------
\* The store after migration 00002 was applied to a database in which the
\* webhook had generated one case and its link: the rows are kept, the
\* UNIQUE constraint on cases.pipedrive_deal_id is gone.
InitMigrated ==
    /\ now = 0
    /\ storeUp = TRUE
    /\ cases = <<CaseRow(GoodPayload(1, 1), 0)>>
    /\ links = <<NewLinkRow(1, hashWithPepper(1, LINK_PEPPER),
                            hashWithPepper("482913", LINK_PEPPER), ExpiresAt(0))>>
    /\ tokenCtr = 1
    /\ guesses = <<0>>
    /\ procs = [p \in Procs |-> Idle]

\* The events of one deal, with one count and with another.
MigratedInputs ==
    [cap |-> GuessBudget, maxLinks |-> MaxLinks, bogus |-> {0},
     caseIds |-> CaseIds,
     passcodes |-> Passcodes, payloads |-> {GoodPayload(1, 1), GoodPayload(1, 2)}]

\* Step 8 on that schema: .upsert(caseRow, {onConflict: "pipedrive_deal_id"})
\* names a column that no unique constraint covers any more, the statement
\* is refused and the handler answers its upsert error.
WebhookUpsertMigrated(p) ==
    LET r == procs[p]
    IN  /\ NoDone
        /\ r.kind = "webhook" /\ r.pc = "upsert"
        /\ cases' = cases
        /\ procs' = [procs EXCEPT ![p] =
               [r EXCEPT !.pc = "done",
                         !.resp = GenResponse(FALSE, 500, FALSE,
                             "Database upsert failed", Null, 0, "", Null)]]
        /\ UNCHANGED <<now, storeUp, links, tokenCtr, guesses>>

NextMigrated ==
    \/ \E p \in SeqProcs :
          \/ VerifyLookup(p, MigratedInputs) \/ VerifyWrite(p) \/ VerifyFetch(p)
          \/ WebhookReceive(p, MigratedInputs) \/ WebhookUpsertMigrated(p)
          \/ Return(p)
    \/ Tick

SpecMigrated == InitMigrated /\ [][NextMigrated]_vars

\* C31 (as claimed): a qualifying trigger for an external key whose subject
\* was last generated a whole window ago regenerates in place: the upsert
\* keeps one subject per key and its id, refreshes the calculation fields and
\* last_generated_at, and the handler goes on to issue the new link.
C31_RegeneratesInPlace ==
    [][\A p \in Procs :
          LET r == procs[p]
              q == procs'[p]
          IN  (/\ r.kind = "webhook" /\ r.pc = "upsert" /\ q.pc # "upsert"
               /\ storeUp /\ CasesOfDeal(r.payload.deal) # {})
              => /\ Len(cases') = Len(cases)
                 /\ \A c \in CasesOfDeal(r.payload.deal) :
                       /\ cases'[c] = CaseRow(r.payload, now)
                       /\ q.case_id = c
                 /\ Cardinality(CasesOfDeal(r.payload.deal)) = 1
                 /\ q.pc = "revoke"
    ]_vars

\* The event the CRM sends after the handler wrote to the deal: storing the
\* case URL leaves the generate field as it is, the reset empties it; in both
\* the previous record is the record the handler was called with.
EchoOf(payload, write) ==
    [payload EXCEPT !.prev = payload.cur,
                    !.cur = IF write = "pipedrive_reset" THEN "" ELSE payload.cur]

\* C32: the webhook handler generates only for an event whose generate field
\* is the Yes option now and was not before; every other event that carries
\* the secret is answered as skipped, writes nothing to the store and nothing
\* to the CRM, and the events that follow the handler's own write-backs are
\* of that kind.
C32_OnlyChangeToYesGenerates ==
    [][\A p \in Procs :
          LET r == procs[p]
              q == procs'[p]
              changed == q.payload.hasBoth /\ q.payload.cur = YES /\ q.payload.prev # YES
          IN  /\ (r.pc = "idle" /\ q.kind = "webhook" /\ ~Unauthorized(q.payload))
                 => /\ ~changed
                       => /\ q.pc = "done"
                          /\ q.resp.ok /\ q.resp.skipped
                          /\ q.ext = {}
                    /\ (q.pc = "upsert" \/ q.ext # {}) => changed
              /\ (q.kind = "webhook" /\ <<cases, links, tokenCtr>>' # <<cases, links, tokenCtr>>)
                 => changed
              /\ (q.kind = "webhook" /\ q.pc = "done")
                 => \A w \in q.ext \cap {"pipedrive_url", "pipedrive_reset"} :
                       NotChangedToYes(EchoOf(q.payload, w))
    ]_vars

\* The event that follows the storing of the case URL (the field is Yes and
\* was Yes) has been answered as skipped while the case and its link exist.
C32_Witness ==
    \E p \in Procs :
        /\ procs[p].kind = "webhook" /\ procs[p].pc = "done"
        /\ procs[p].payload = EchoOf(GoodPayload(1, 1), "pipedrive_url")
        /\ procs[p].resp.skipped
        /\ Len(cases) = 1 /\ Len(links) >= 1

\* Visitors that hold the one link and send passcodes at the same time, with
\* the whole attempt budget.
LockRaceInputs ==
    [cap |-> AttemptCap, maxLinks |-> SingleLink, bogus |-> {},
     caseIds |-> CaseIds,
     passcodes |-> Passcodes, payloads |-> {GoodPayload(1, 1)}]

\* Concurrent verifications of one link up to the lock.
NextLockRace ==
    \/ \E p \in Procs :
          \/ VerifyLookup(p, LockRaceInputs) \/ VerifyWrite(p) \/ VerifyFetch(p)
          \/ WebhookReceive(p, LockRaceInputs) \/ WebhookUpsert(p) \/ WebhookRevoke(p)
          \/ WebhookInsert(p)
          \/ Return(p)
    \/ Tick

SpecLockRace == Init /\ [][NextLockRace]_vars

\* C33 (as claimed): in every reachable state, concurrent verifications
\* included, a link whose locked_until is in the future has an attempt_count
\* of at least MAX_ATTEMPTS.
C33_LockedImpliesCountAtMax ==
    \A l \in LinkIds :
        IsLocked(links[l], now) => links[l].attempt_count >= MAX_ATTEMPTS

\* C34 (as claimed): in every interleaving of concurrent verifications of one
\* link at most MAX_ATTEMPTS wrong passcodes are compared, since issuance or
\* the last success, before locked_until is set to a future instant.
C34_GuessesWithinBudget ==
    \A l \in LinkIds :
        ~IsLocked(links[l], now) /\ links[l].attempt_count < MAX_ATTEMPTS
            => guesses[l] <= MAX_ATTEMPTS

\* Two subjects with different counts, a link each, visitors that name either
\* subject with either token.
SubjectsInputs ==
    [cap |-> GuessBudget, maxLinks |-> MaxLinks, bogus |-> {0},
     caseIds |-> CaseIds \cup {OtherCase},
     passcodes |-> Passcodes, payloads |-> {GoodPayload(1, 1), GoodPayload(2, 2)}]

NextSubjects ==
    \/ \E p \in SeqProcs :
          \/ VerifyLookup(p, SubjectsInputs) \/ VerifyWrite(p) \/ VerifyFetch(p)
          \/ WebhookReceive(p, SubjectsInputs) \/ WebhookUpsert(p) \/ WebhookRevoke(p)
          \/ WebhookInsert(p)
          \/ Return(p)
    \/ Tick

SpecSubjects == Init /\ [][NextSubjects]_vars

\* C35: a success carries the calculation fields of the subject that owns the
\* verified link; a token presented with the id of another subject is
\* answered invalid, without data and without a passcode comparison.
C35_SuccessCarriesOwnSubject ==
    [][\A p \in Procs :
          LET r == procs[p]
              q == procs'[p]
          IN  /\ (/\ r.kind = "verify" /\ r.pc = "fetch" /\ q.pc = "done"
                  /\ q.resp.state = "success")
                 => LET owner == links[CHOOSE l \in LinksOfToken(r.token) : TRUE].case_id
                    IN  /\ Cardinality(LinksOfToken(r.token)) = 1
                        /\ r.case_id = owner
                        /\ q.resp.data.id = owner
                        /\ q.resp.data.calc_total = cases[owner].calc_total
                        /\ q.resp.data.calc_er = cases[owner].calc_er
                        /\ q.resp.data.calc_ee = cases[owner].calc_ee
              /\ (/\ r.pc = "idle" /\ q.kind = "verify"
                  /\ \E l \in LinkIds :
                        /\ links[l].token_hash = hashWithPepper(q.token, LINK_PEPPER)
                        /\ links[l].case_id # q.case_id)
                 => /\ q.pc = "done"
                    /\ q.resp.state = "invalid"
                    /\ q.resp.data = Null
                    /\ guesses' = guesses
    ]_vars

\* The link of the second subject has verified with success and its answer
\* carries the totals of the second subject, which are not those of the first.
C35_Witness ==
    \E p \in Procs :
        /\ Answered(procs[p])
        /\ procs[p].resp.state = "success"
        /\ Len(cases) = 2
        /\ procs[p].resp.data.id = OtherCase
        /\ procs[p].resp.data.calc_total = cases[OtherCase].calc_total
        /\ cases[OtherCase].calc_total # cases[1].calc_total

\* C36 (as claimed): whenever the idempotency guard answers a trigger as
\* skipped, the subject the answer names has a link that is not revoked.
C36_SkippedSubjectHasLink ==
    \A p \in Procs :
        (/\ procs[p].kind = "webhook" /\ procs[p].pc = "done"
         /\ procs[p].resp.skipped /\ procs[p].resp.why = "idempotency_window")
        => ActiveLinks(procs[p].resp.case_id) # {}

\* C37 (as claimed): the webhook path and calculateSavings are one
\* calculation: the totals and the rates the webhook handler stores for a
\* count are the fields of calculateSavings of that count.
C37_WebhookMatchesCalculator ==
    \A c \in 1..Len(cases) :
        (CaseExists(c) /\ cases[c].deal # Null)
        => LET savings == calculateSavings(cases[c].w2_count.int)
           IN  /\ cases[c].calc_total = Num(FALSE, savings.calc_total, FALSE)
               /\ cases[c].calc_er = Num(FALSE, savings.calc_er, FALSE)
               /\ cases[c].calc_ee = Num(FALSE, savings.calc_ee, FALSE)
               /\ cases[c].calc_inputs.rate_total = savings.calc_inputs.rate_total
               /\ cases[c].calc_inputs.rate_er = savings.calc_inputs.rate_er
               /\ cases[c].calc_inputs.rate_ee = savings.calc_inputs.rate_ee

\* Triggers and requests with counts of every kind: whole, fractional, zero,
\* negative, not a number.
OddCounts ==
    {Whole(1), Num(FALSE, Bits(10), TRUE), Whole(0), Num(TRUE, Bits(5), FALSE),
     Str("abc"), Str("25")}

CountsInputs ==
    [cap |-> GuessBudget, maxLinks |-> MaxLinks, bogus |-> {},
     caseIds |-> CaseIds, passcodes |-> Passcodes,
     payloads |-> {[GoodPayload(1, 1) EXCEPT !.w2 = v] : v \in OddCounts},
     users |-> Users, bodies |-> {[GoodBody EXCEPT !.w2_count = v] : v \in OddCounts},
     peppers |-> {LINK_PEPPER}]

\* Both generation paths, one request at a time, the store failing at times.
NextCounts ==
    \/ \E p \in SeqProcs :
          \/ GenerateStart(p, CountsInputs) \/ GenerateLink(p, CountsInputs)
          \/ GenerateCleanup(p)
          \/ WebhookReceive(p, CountsInputs) \/ WebhookUpsert(p) \/ WebhookRevoke(p)
          \/ WebhookInsert(p)
          \/ Return(p)
    \/ Tick
    \/ StoreFail
    \/ StoreRecover

SpecCounts == Init /\ [][NextCounts]_vars

\* The count a generation request carries, as its handler reads it.
CountOf(r) ==
    IF r.kind = "webhook" THEN W2Count(r.payload) ELSE r.body.w2_count

\* C38 (as claimed): every subject stored by a generation path, /api/generate
\* or the webhook handler, records a count that is a finite whole number
\* above zero, and a request whose count is zero, negative, fractional or not
\* a number creates no subject and no link.
C38_StoredCountsArePositiveWhole ==
    [][/\ \A c \in 1..Len(cases') :
             cases'[c] # DeletedCase => PositiveWhole(cases'[c].w2_count)
       /\ \A p \in Procs :
             (/\ procs'[p].kind \in {"webhook", "generate"}
              /\ ~PositiveWhole(CountOf(procs'[p])))
             => cases' = cases /\ links' = links
    ]_vars

\* Requests to /api/generate of every kind, in an environment whose
\* LINK_PEPPER is set or not.
GenerateInputs ==
    [cap |-> GuessBudget, maxLinks |-> MaxLinks, bogus |-> {},
     caseIds |-> CaseIds, passcodes |-> Passcodes, payloads |-> {GoodPayload(1, 1)},
     users |-> Users \cup {0}, bodies |-> GenerateBodies, peppers |-> {LINK_PEPPER, ""}]

NextGenerate ==
    \/ \E p \in SeqProcs :
          \/ GenerateStart(p, GenerateInputs) \/ GenerateLink(p, GenerateInputs)
          \/ GenerateCleanup(p)
          \/ DashboardRead(p, GenerateInputs)
          \/ Return(p)
    \/ Tick
    \/ StoreFail
    \/ StoreRecover

SpecGenerate == Init /\ [][NextGenerate]_vars

\* The links of a case.
LinksOfCase(c) == {l \in LinkIds : links[l].case_id = c}

\* C39 (as claimed): /api/generate is all or nothing: a request that answers
\* ok has stored a subject and its link, a request that answers a failure
\* has left no subject behind, and outside a request no subject of the
\* platform is without a link.
C39_GenerateAllOrNothing ==
    /\ \A p \in Procs :
          (procs[p].kind = "generate" /\ procs[p].pc = "done")
          => IF procs[p].resp.ok
             THEN CaseExists(procs[p].case_id) /\ LinksOfCase(procs[p].case_id) # {}
             ELSE procs[p].case_id = Null \/ ~CaseExists(procs[p].case_id)
    /\ InFlight = {}
       => \A c \in 1..Len(cases) :
             (CaseExists(c) /\ cases[c].user_id # Null) => LinksOfCase(c) # {}

\* ------------------------------------------------------------------------
\* app/api/validate: the token-only validator of public proposal links
\* ------------------------------------------------------------------------
TokenProc(pc, caseId, token, id, snap, t, wrote, resp) ==
    [kind |-> "token", pc |-> pc, case_id |-> caseId, token |-> token,
     id |-> id, snap |-> snap, now |-> t, wrote |-> wrote, resp |-> resp]

\* { ok, state } with the status of the response; the route has no
\* remaining_attempts and no locked_until.
TokenResponse(ok, state, status, data) ==
    AccessResponse(ok, state, status, Null, Null, data)

\* Variant: the update of the passcode validator's success.
ViewUpdate_ResetsAttempts(row, link, t) ==
    [row EXCEPT !.attempt_count = 0,
                !.view_count = link.view_count + 1,
                !.last_viewed_at = t]

\* view_count: (link.view_count || 0) + 1, last_viewed_at: now; no other
\* column is named.
ViewUpdate(row, link, t) ==
    [row EXCEPT !.view_count = link.view_count + 1,
                !.last_viewed_at = t]

\* Parse the body, read LINK_PEPPER, look the link up by (token_hash,
\* case_id), test revoked, then expired.  missing is a body without case_id
\* or token.
TokenLookup(p, in) ==
    /\ NoDone
    /\ procs[p].pc = "idle"
    /\ \E caseId \in in.caseIds, token \in in.bogus \cup (1..tokenCtr),
          missing \in BOOLEAN, pepper \in in.peppers :
        LET m == MatchingLinks(hashWithPepper(token, pepper), caseId)
            id == CHOOSE i \in m : TRUE
            link == links[id]
            End(i, snap, resp) ==
                procs' = [procs EXCEPT ![p] =
                    TokenProc("done", caseId, token, i, snap, now, FALSE, resp)]
        IN  IF missing
              THEN End(0, NoRow, TokenResponse(FALSE, "invalid", 400, Null))
            ELSE IF pepper = ""
              THEN End(0, NoRow, TokenResponse(FALSE, "invalid", 500, Null))
            ELSE IF ~storeUp \/ Cardinality(m) > 1
              THEN End(0, NoRow, TokenResponse(FALSE, "invalid", 500, Null))
            ELSE IF m = {}
              THEN End(0, NoRow, TokenResponse(FALSE, "invalid", 200, Null))
            ELSE IF link.revoked_at # Null
              THEN End(id, link, TokenResponse(FALSE, "revoked", 200, Null))
            ELSE IF link.expires_at < now
              THEN End(id, link, TokenResponse(FALSE, "expired", 200, Null))
            ELSE /\ link.view_count < MaxViews
                 /\ procs' = [procs EXCEPT ![p] =
                        TokenProc("write", caseId, token, id, link, now, FALSE, NoResp)]
    /\ UNCHANGED <<now, storeUp, cases, links, tokenCtr, guesses>>

\* The update of view_count and last_viewed_at; its result is not looked at.
TokenWrite(p) ==
    LET r == procs[p]
        applied == storeUp
    IN  /\ NoDone
        /\ r.kind = "token" /\ r.pc = "write"
        /\ links' = IF applied
                    THEN [links EXCEPT ![r.id] = ViewUpdate(@, r.snap, r.now)]
                    ELSE links
        /\ procs' = [procs EXCEPT ![p] = [r EXCEPT !.pc = "fetch", !.wrote = applied]]
        /\ UNCHANGED <<now, storeUp, cases, tokenCtr, guesses>>

\* The case of the request, fetched by its id.
TokenFetch(p) ==
    LET r == procs[p]
        caseError == ~storeUp \/ ~CaseExists(r.case_id)
    IN  /\ NoDone
        /\ r.kind = "token" /\ r.pc = "fetch"
        /\ procs' = [procs EXCEPT ![p] =
               [r EXCEPT !.pc = "done",
                         !.resp = IF caseError
                                  THEN TokenResponse(FALSE, "invalid", 200, Null)
                                  ELSE TokenResponse(TRUE, "success", 200,
                                                     CaseData(r.case_id))]]
        /\ UNCHANGED <<now, storeUp, cases, links, tokenCtr, guesses>>

\* Step 3 of the passcode validator as one value: the first lifecycle test
\* that answers, "open" when none does.
AccessLifecycle(link, t) ==
    IF IsRevoked(link) THEN "revoked"
    ELSE IF IsExpired(link, t) THEN "expired"
    ELSE IF IsLocked(link, t) THEN "locked"
    ELSE "open"

\* Both validators against the links of two generations, with the whole
\* attempt budget open to wrong passcodes.
TokenInputs ==
    [cap |-> AttemptCap, maxLinks |-> MaxLinks, bogus |-> {0},
     caseIds |-> CaseIds,
     passcodes |-> Passcodes, payloads |-> {GoodPayload(1, 1)},
     peppers |-> {LINK_PEPPER, ""}]

NextToken ==
    \/ \E p \in SeqProcs :
          \/ TokenLookup(p, TokenInputs) \/ TokenWrite(p) \/ TokenFetch(p)
          \/ VerifyLookup(p, TokenInputs) \/ VerifyWrite(p) \/ VerifyFetch(p)
          \/ WebhookReceive(p, TokenInputs) \/ WebhookUpsert(p) \/ WebhookRevoke(p)
          \/ WebhookInsert(p)
          \/ Return(p)
    \/ Tick

SpecToken == Init /\ [][NextToken]_vars

\* A lookup step of worker p by a handler of the given kind that reached
\* the store with a well-formed request.
LookedUp(p, kind) ==
    /\ procs[p].pc = "idle"
    /\ procs'[p].pc # "idle"
    /\ procs'[p].kind = kind
    /\ procs'[p].pc = "done" => procs'[p].resp.status = 200

\* C40: the token-only validator and the passcode validator give the same
\* answer for a link that is not found, revoked or expired, with revoked
\* tested before expired and nothing written; the token-only validator never
\* changes attempt_count or locked_until; and on a link that is neither
\* revoked nor expired it counts one view and reports success, whether or not
\* a lock is running.
C40_TokenValidatorAgrees ==
    [][\A p \in Procs :
        LET r == procs'[p]
            m == MatchingLinks(hashWithPepper(r.token, LINK_PEPPER), r.case_id)
            life == AccessLifecycle(r.snap, r.now)
        IN  /\ LookedUp(p, "verify") =>
                /\ links' = links
                /\ (r.snap = NoRow) = (m = {})
                /\ r.snap = NoRow => r.resp.state = "invalid"
                /\ r.snap # NoRow =>
                      IF life = "open" THEN r.pc = "write"
                      ELSE r.pc = "done" /\ r.resp.state = life
            /\ LookedUp(p, "token") =>
                /\ links' = links
                /\ (r.snap = NoRow) = (m = {})
                /\ r.snap = NoRow => r.resp.state = "invalid"
                /\ r.snap # NoRow =>
                      IF life \in {"revoked", "expired"}
                      THEN r.pc = "done" /\ ~r.resp.ok /\ r.resp.state = life
                      ELSE r.pc = "write"
            /\ (procs[p].kind = "token" /\ procs[p].pc = "write") =>
                /\ links'[r.id].view_count = links[r.id].view_count + 1
                /\ \A l \in LinkIds \ {r.id} : links'[l] = links[l]
            /\ (procs[p].kind = "token" /\ procs[p].pc = "fetch") =>
                /\ r.resp.ok /\ r.resp.state = "success"
            /\ (procs[p].kind = "token" \/ r.kind = "token") =>
                /\ Len(links') = Len(links)
                /\ \A l \in LinkIds :
                      /\ links'[l].attempt_count = links[l].attempt_count
                      /\ links'[l].locked_until = links[l].locked_until
      ]_vars

\* The token-only validator has answered success for a link whose lock was
\* running when it was read.
C40_Witness ==
    \E p \in Procs :
        /\ procs[p].kind = "token" /\ procs[p].pc = "done"
        /\ procs[p].resp.state = "success"
        /\ IsLocked(procs[p].snap, procs[p].now)
        /\ links[procs[p].id].view_count = procs[p].snap.view_count + 1

====
